---- MODULE Spec2Model ----
(***************************************************************************)
(* Model of the ChatGPT OAuth provider for the AI SDK.                     *)
(*                                                                         *)
(* Strings whose characters the code inspects (SSE lines, tool names,      *)
(* model ids, JSON texts) are sequences of one-character strings, so that  *)
(* startsWith, includes, slice, split, indexOf and toLowerCase are         *)
(* computed as the code computes them.  A string field that is absent      *)
(* (undefined) is the empty sequence or "": every use of such a field in   *)
(* the code goes through ||, && or a truthiness test, which do not         *)
(* distinguish undefined from the empty string.                            *)
(***************************************************************************)
EXTENDS Integers, Sequences, FiniteSets, TLC

(***************************************************************************)
(* Bounds of the model.                                                    *)
(***************************************************************************)
MaxFrames == 3
MaxTools == 3

(***************************************************************************)
(* String helpers (JavaScript String methods).                             *)
(***************************************************************************)
StartsWith(s, p) ==
  /\ Len(p) <= Len(s)
  /\ SubSeq(s, 1, Len(p)) = p

Includes(s, sub) ==
  \E i \in 1..(Len(s) - Len(sub) + 1) : SubSeq(s, i, i + Len(sub) - 1) = sub

\* s.slice(n): the string without its first n characters
Slice(s, n) == SubSeq(s, n + 1, Len(s))

\* s.split(sep) for a one-character separator: the pieces between the
\* separators, always at least one piece
Split(s, sep) ==
  LET at == {i \in 1..Len(s) : s[i] = sep}
      \* the position of the j-th separator; 0 and Len(s) + 1 bound the string
      cut(j) == IF j = 0 THEN 0
                ELSE IF j > Cardinality(at) THEN Len(s) + 1
                ELSE CHOOSE i \in at : Cardinality({x \in at : x < i}) = j - 1
  IN [j \in 1..(Cardinality(at) + 1) |-> SubSeq(s, cut(j - 1) + 1, cut(j) - 1)]

\* lines.pop(): the array without its last element
Front(q) == SubSeq(q, 1, Len(q) - 1)

Last(q) == q[Len(q)]

RECURSIVE Concat(_)
Concat(qs) == IF qs = <<>> THEN <<>> ELSE Head(qs) \o Concat(Tail(qs))

(***************************************************************************)
(* TextDecoder("utf-8").decode(value, {stream: true}).  Bytes are the      *)
(* ASCII characters themselves plus the two bytes of one two-byte          *)
(* character; pending is the lead byte kept between calls.                 *)
(***************************************************************************)
LeadByte == "0xC3"
ContByte == "0xA9"
EAcute == "e_acute"
Replacement == "U+FFFD"

\* A lead byte combines with the continuation byte that follows it; a
\* lead byte followed by anything else and a continuation byte without a
\* lead byte are replaced; a lead byte at the end of the chunk is kept.
Decode(pending, bytes) ==
  LET all == (IF pending = "" THEN <<>> ELSE <<pending>>) \o bytes
      n == Len(all)
      out == [i \in 1..n |->
                IF all[i] = LeadByte
                THEN IF i = n \/ all[i + 1] = ContByte THEN "" ELSE Replacement
                ELSE IF all[i] = ContByte
                THEN IF i > 1 /\ all[i - 1] = LeadByte THEN EAcute ELSE Replacement
                ELSE all[i]]
  IN [text |-> SelectSeq(out, LAMBDA c : c # ""),
      pending |-> IF n > 0 /\ all[n] = LeadByte THEN LeadByte ELSE ""]

(***************************************************************************)
(* JSON texts.  JSON.parse is a lookup in a dictionary of texts; every     *)
(* other text is a SyntaxError.  Values are named, and JSON.stringify      *)
(* gives the text of a value.                                              *)
(***************************************************************************)
TxtCmd == <<"{", "c", "}">>           \* {"command":["ls"]}
TxtCmdExtra == <<"{", "c", ",", "x", "}">>  \* {"command":["ls"],"extra":1}
TxtCmdString == <<"{", "s", "}">>     \* {"command":"ls"}
TxtPlan == <<"{", "p", "}">>          \* {"plan":[{"step":"a","status":"pending"}]}

\* a text a model writes in object-json mode: a word and then a JSON
\* object (two of them in a row are braces around something that is not JSON)
TxtProseThenJSON == <<"a">> \o TxtCmd

JSONTexts == {TxtCmd, TxtCmdExtra, TxtCmdString, TxtPlan}

IsJSON(t) == t \in JSONTexts

JSONParse(t) ==
  CASE t = TxtCmd -> "cmd"
    [] t = TxtCmdExtra -> "cmd_extra"
    [] t = TxtCmdString -> "cmd_string"
    [] t = TxtPlan -> "plan"

JSONStringify(v) ==
  CASE v = "cmd" -> TxtCmd
    [] v = "cmd_extra" -> TxtCmdExtra
    [] v = "cmd_string" -> TxtCmdString
    [] v = "plan" -> TxtPlan

\* zod object schemas: unknown keys are stripped from the parsed data
ShellSchemaParse(v) ==
  CASE v = "cmd" -> [success |-> TRUE, data |-> "cmd"]
    [] v = "cmd_extra" -> [success |-> TRUE, data |-> "cmd"]
    [] OTHER -> [success |-> FALSE, data |-> v]

UpdatePlanSchemaParse(v) ==
  CASE v = "plan" -> [success |-> TRUE, data |-> "plan"]
    [] OTHER -> [success |-> FALSE, data |-> v]

(***************************************************************************)
(* Tool names.                                                             *)
(***************************************************************************)
NameShell == <<"s", "h", "e", "l", "l">>
NameUpdatePlan == <<"u", "p", "d", "a", "t", "e", "_", "p", "l", "a", "n">>
NameBash == <<"b", "a", "s", "h">>
NameExecute == <<"e", "x", "e", "c", "u", "t", "e">>
NameTodoWrite == <<"T", "o", "d", "o", "W", "r", "i", "t", "e">>
NameMyPlan == <<"m", "y", "p", "l", "a", "n">>
NameGetWeather == <<"g", "e", "t", "W", "e", "a", "t", "h", "e", "r">>
NameExecutePlan == <<"e", "x", "e", "c", "u", "t", "e", "_", "p", "l", "a", "n">>

\* validateToolResponse: the parsed (and, for the two known tools, validated)
\* arguments, or the error it throws
validateToolResponse(toolName, args) ==
  IF ~IsJSON(args) THEN [ok |-> FALSE, value |-> "", error |-> "Failed to parse tool arguments as JSON"]
  ELSE
    LET parsedArgs == JSONParse(args) IN
    IF toolName = NameShell THEN
      LET result == ShellSchemaParse(parsedArgs) IN
        IF result.success THEN [ok |-> TRUE, value |-> result.data, error |-> ""]
        ELSE [ok |-> FALSE, value |-> "", error |-> "unexpected format for 'shell' tool"]
    ELSE IF toolName = NameUpdatePlan THEN
      LET result == UpdatePlanSchemaParse(parsedArgs) IN
        IF result.success THEN [ok |-> TRUE, value |-> result.data, error |-> ""]
        ELSE [ok |-> FALSE, value |-> "", error |-> "unexpected format for 'update_plan' tool"]
    ELSE [ok |-> TRUE, value |-> parsedArgs, error |-> ""]

(***************************************************************************)
(* Finish reasons.                                                         *)
(***************************************************************************)
mapChatGPTFinishReason(finishReason) ==
  CASE finishReason \in {"stop", "completed"} -> "stop"
    [] finishReason \in {"length", "max_tokens"} -> "length"
    [] finishReason = "content_filter" -> "content-filter"
    [] OTHER -> "unknown"

\* the variant for LanguageModelV2FinishReason
mapChatGPTFinishReasonV2(finishReason) ==
  CASE finishReason \in {"stop", "completed"} -> "stop"
    [] finishReason \in {"length", "max_tokens"} -> "length"
    [] finishReason \in {"tool_calls", "function_call"} -> "tool-calls"
    [] finishReason = "content_filter" -> "content-filter"
    [] OTHER -> "stop"

(***************************************************************************)
(* Backend events.  An event is the object JSON.parse gives for the        *)
(* payload of a data frame; absent fields are "" / <<>> / 0.               *)
(***************************************************************************)
NoEvent ==
  [type |-> "", itemType |-> "", itemId |-> "", itemName |-> <<>>,
   arguments |-> <<>>, item_id |-> "", delta |-> <<>>, status |-> "",
   hasUsage |-> FALSE, input_tokens |-> 0, output_tokens |-> 0, total_tokens |-> 0]

EvAdded(id) ==
  [NoEvent EXCEPT !.type = "response.output_item.added",
                  !.itemType = "function_call", !.itemId = id]

EvArgsDelta(id, d) ==
  [NoEvent EXCEPT !.type = "response.function_call_arguments.delta",
                  !.item_id = id, !.delta = d]

EvDone(id, name, args) ==
  [NoEvent EXCEPT !.type = "response.output_item.done",
                  !.itemType = "function_call", !.itemId = id,
                  !.itemName = name, !.arguments = args]

EvTextDelta(d) ==
  [NoEvent EXCEPT !.type = "response.output_text.delta", !.delta = d]

EvCompleted(status, hasUsage, inTok, outTok, total) ==
  [NoEvent EXCEPT !.type = "response.completed", !.status = status,
                  !.hasUsage = hasUsage, !.input_tokens = inTok,
                  !.output_tokens = outTok, !.total_tokens = total]

\* The payloads of the model: the text of a data frame after "data: " and
\* the event it parses to.  Any other payload is not JSON.
PayloadEvents ==
  [p \in {<<"A">>, <<"N">>, <<"G">>, <<"S">>, <<"B">>, <<"W">>, <<"P">>,
          <<"D">>, <<"T">>, <<EAcute>>, <<"J">>, <<"C">>, <<"K">>} |->
     CASE p = <<"A">> -> EvAdded("fc_1")
       [] p = <<"N">> -> EvAdded("")
       [] p = <<"G">> -> EvArgsDelta("fc_1", TxtCmd)
       [] p = <<"S">> -> EvDone("fc_1", NameShell, TxtCmd)
       [] p = <<"B">> -> EvDone("fc_1", NameShell, TxtCmdString)
       [] p = <<"W">> -> EvDone("fc_1", NameShell, TxtCmdExtra)
       [] p = <<"P">> -> EvDone("fc_1", NameUpdatePlan, TxtPlan)
       [] p = <<"D">> -> EvDone("", NameShell, TxtCmd)
       [] p = <<"T">> -> EvTextDelta(<<"h">>)
       [] p = <<EAcute>> -> EvTextDelta(<<EAcute>>)
       [] p = <<"J">> -> EvTextDelta(TxtProseThenJSON)
       [] p = <<"C">> -> EvCompleted("completed", TRUE, 3, 4, 9)
       [] p = <<"K">> -> EvCompleted("", FALSE, 0, 0, 0)]

IsEventJSON(data) == data \in DOMAIN PayloadEvents

ParseEvent(data) == PayloadEvents[data]

(***************************************************************************)
(* SSE framing.                                                            *)
(***************************************************************************)
NL == "\n"
DataPrefix == <<"d", "a", "t", "a", ":", " ">>
DoneSentinel == <<"[", "D", "O", "N", "E", "]">>

\* the bytes of the lines of the model (without the newline)
LineAdded == DataPrefix \o <<"A">>
LineAddedNoId == DataPrefix \o <<"N">>
LineArgsDelta == DataPrefix \o <<"G">>
LineDoneShell == DataPrefix \o <<"S">>
LineDoneShellBad == DataPrefix \o <<"B">>
LineDoneShellExtra == DataPrefix \o <<"W">>
LineDonePlan == DataPrefix \o <<"P">>
LineDoneNoId == DataPrefix \o <<"D">>
LineText == DataPrefix \o <<"T">>
LineTextEAcute == DataPrefix \o <<LeadByte, ContByte>>
LineTextJSON == DataPrefix \o <<"J">>
LineCompleted == DataPrefix \o <<"C">>
LineCompletedBare == DataPrefix \o <<"K">>
LineMalformed == DataPrefix \o <<"{">>
LineSentinel == DataPrefix \o DoneSentinel
LineEmpty == <<>>

\* the call id used when an opened item carries none: call_${Date.now()}
FallbackIds == {"call_1700000000000"}

(***************************************************************************)
(* The state of one reduction: the locals of doGenerate and of doStream's  *)
(* start callback.                                                         *)
(***************************************************************************)
EmptyMap == [k \in {} |-> <<>>]

MapSet(m, k, v) == [x \in (DOMAIN m) \cup {k} |-> IF x = k THEN v ELSE m[x]]

MapDelete(m, k) == [x \in (DOMAIN m) \ {k} |-> m[x]]

NamePending == <<"p", "e", "n", "d", "i", "n", "g">>

NoPart ==
  [type |-> "", textDelta |-> <<>>, toolCallId |-> "", toolName |-> <<>>,
   args |-> <<>>, finishReason |-> "", promptTokens |-> 0, completionTokens |-> 0]

InitialReduction ==
  [activeToolCalls |-> EmptyMap,
   buffer |-> <<>>,
   decoderPending |-> "",
   text |-> <<>>,
   toolCallsCollected |-> <<>>,
   finishReason |-> "stop",
   usage |-> [promptTokens |-> 0, completionTokens |-> 0],
   warnings |-> <<>>,
   accumulatedText |-> <<>>,
   emitted |-> <<>>,
   closeCount |-> 0,
   returned |-> FALSE]

\* toolMapping.get(name) || name
OriginalName(mapping, name) ==
  IF name \in DOMAIN mapping /\ mapping[name] # <<>> THEN mapping[name] ELSE name

\* case 'response.output_item.added'
OnItemAdded(s, event, now) ==
  IF event.itemType = "function_call" THEN
    LET id == IF event.itemId # "" THEN event.itemId ELSE now IN
      [s EXCEPT !.activeToolCalls =
         MapSet(@, id, [name |-> NamePending, args |-> <<>>])]
  ELSE s

\* case 'response.function_call_arguments.delta'
OnArgumentsDelta(s, event) ==
  IF /\ event.item_id # ""
     /\ event.delta # <<>>
     /\ event.item_id \in DOMAIN s.activeToolCalls
  THEN [s EXCEPT !.activeToolCalls[event.item_id].args = @ \o event.delta]
  ELSE s

\* the name and arguments a closed call is finalized with
FinalArgs(s, event) ==
  LET acc == s.activeToolCalls[event.itemId].args IN
    IF acc # <<>> THEN acc ELSE event.arguments

\* GenOnItemDone without its inner try/catch: the validation error reaches
\* the catch around the switch, and the call is neither collected nor removed
GenOnItemDoneNoCatch(s, event, mapping) ==
  IF /\ event.itemType = "function_call"
     /\ event.itemName # <<>>
     /\ event.itemId \in DOMAIN s.activeToolCalls
  THEN
    LET toolCallId == event.itemId
        name == event.itemName
        args == FinalArgs(s, event)
        validated == validateToolResponse(name, args)
        call == [toolCallType |-> "function", toolCallId |-> toolCallId,
                 toolName |-> OriginalName(mapping, name),
                 args |-> JSONStringify(validated.value)]
    IN IF validated.ok
       THEN [s EXCEPT !.toolCallsCollected = Append(@, call),
                      !.activeToolCalls = MapDelete(@, toolCallId)]
       ELSE s
  ELSE s

\* case 'response.output_item.done' of doGenerate
GenOnItemDone(s, event, mapping) ==
  IF /\ event.itemType = "function_call"
     /\ event.itemName # <<>>
     /\ event.itemId \in DOMAIN s.activeToolCalls
  THEN
    LET toolCallId == event.itemId
        name == event.itemName
        args == FinalArgs(s, event)
        originalName == OriginalName(mapping, name)
        validated == validateToolResponse(name, args)
        call == [toolCallType |-> "function", toolCallId |-> toolCallId,
                 toolName |-> originalName,
                 args |-> IF validated.ok THEN JSONStringify(validated.value) ELSE args]
    IN [s EXCEPT
          !.toolCallsCollected = Append(@, call),
          !.warnings = IF validated.ok THEN @
                          ELSE Append(@, [type |-> "other", message |-> validated.error]),
          !.activeToolCalls = MapDelete(@, toolCallId)]
  ELSE s

\* case 'response.completed' of doGenerate
GenOnCompleted(s, event) ==
  [s EXCEPT
     !.finishReason = mapChatGPTFinishReason(event.status),
     !.usage = IF event.hasUsage
               THEN [promptTokens |-> event.input_tokens,
                     completionTokens |-> event.output_tokens]
               ELSE @]

\* the switch of doGenerate on one parsed event
GenOnEvent(s, event, mapping, now) ==
  CASE event.type = "response.output_item.added" -> OnItemAdded(s, event, now)
    [] event.type = "response.function_call_arguments.delta" -> OnArgumentsDelta(s, event)
    [] event.type = "response.output_item.done" -> GenOnItemDone(s, event, mapping)
    [] event.type = "response.output_text.delta" -> [s EXCEPT !.text = @ \o event.delta]
    [] event.type = "response.completed" -> GenOnCompleted(s, event)
    [] OTHER -> s

\* try { JSON.parse(data); switch ... } catch { ignore }
GenOnData(s, data, mapping, now) ==
  IF IsEventJSON(data) THEN GenOnEvent(s, ParseEvent(data), mapping, now) ELSE s

RECURSIVE GenLinesAbortOnBadFrame(_, _, _, _)
\* GenLines with the try/catch around the whole loop: a frame that is not
\* JSON ends the handling of the lines of this read
GenLinesAbortOnBadFrame(s, lines, mapping, now) ==
  IF lines = <<>> THEN s
  ELSE
    LET line == Head(lines) IN
    IF ~StartsWith(line, DataPrefix)
    THEN GenLinesAbortOnBadFrame(s, Tail(lines), mapping, now)
    ELSE
      LET data == Slice(line, 6) IN
      IF data = DoneSentinel \/ ~IsEventJSON(data) THEN s
      ELSE GenLinesAbortOnBadFrame(GenOnData(s, data, mapping, now),
                                   Tail(lines), mapping, now)

RECURSIVE GenLines(_, _, _, _)
\* the for loop of doGenerate over the complete lines of one read; the
\* sentinel leaves this loop only
GenLines(s, lines, mapping, now) ==
  IF lines = <<>> THEN s
  ELSE
    LET line == Head(lines) IN
    IF ~StartsWith(line, DataPrefix) THEN GenLines(s, Tail(lines), mapping, now)
    ELSE
      LET data == Slice(line, 6) IN
      IF data = DoneSentinel THEN s
      ELSE GenLines(GenOnData(s, data, mapping, now), Tail(lines), mapping, now)

\* controller.enqueue(part)
Enqueue(s, part) == [s EXCEPT !.emitted = Append(@, part)]

\* case 'response.output_item.done' of doStream
StreamOnItemDone(s, event, mapping) ==
  IF /\ event.itemType = "function_call"
     /\ event.itemName # <<>>
     /\ event.itemId \in DOMAIN s.activeToolCalls
  THEN
    LET toolCallId == event.itemId
        name == event.itemName
        args == FinalArgs(s, event)
        originalName == OriginalName(mapping, name)
        validated == validateToolResponse(name, args)
        part == [NoPart EXCEPT
                   !.type = "tool-call", !.toolCallId = toolCallId,
                   !.toolName = originalName,
                   !.args = IF validated.ok THEN JSONStringify(validated.value) ELSE args]
    IN [Enqueue(s, part) EXCEPT !.activeToolCalls = MapDelete(@, toolCallId)]
  ELSE s

\* text.indexOf('{') and text.lastIndexOf('}'), 0 when not found (1-based)
IndexOf(t, c) ==
  IF \E i \in 1..Len(t) : t[i] = c
  THEN CHOOSE i \in 1..Len(t) : t[i] = c /\ \A j \in 1..(i - 1) : t[j] # c
  ELSE 0

LastIndexOf(t, c) ==
  IF \E i \in 1..Len(t) : t[i] = c
  THEN CHOOSE i \in 1..Len(t) : t[i] = c /\ \A j \in (i + 1)..Len(t) : t[j] # c
  ELSE 0

\* case 'response.output_text.delta' of doStream
StreamOnTextDelta(s, event, mode) ==
  IF event.delta = <<>> THEN s
  ELSE IF mode = "object-json"
  THEN [s EXCEPT !.accumulatedText = @ \o event.delta]
  ELSE Enqueue(s, [NoPart EXCEPT !.type = "text-delta", !.textDelta = event.delta])

\* case 'response.completed' of doStream
StreamOnCompleted(s, event, mode) ==
  LET toEmit ==
        LET firstBrace == IndexOf(s.accumulatedText, "{")
            lastBrace == LastIndexOf(s.accumulatedText, "}")
        IN IF firstBrace # 0 /\ lastBrace # 0
           THEN SubSeq(s.accumulatedText, firstBrace, lastBrace)
           ELSE s.accumulatedText
      s1 == IF mode = "object-json" /\ s.accumulatedText # <<>>
            THEN Enqueue(s, [NoPart EXCEPT !.type = "text-delta", !.textDelta = toEmit])
            ELSE s
  IN Enqueue(s1, [NoPart EXCEPT
                    !.type = "finish",
                    !.finishReason = mapChatGPTFinishReason(event.status),
                    !.promptTokens = event.input_tokens,
                    !.completionTokens = event.output_tokens])

\* the switch of doStream on one parsed event
StreamOnEvent(s, event, mapping, mode, now) ==
  CASE event.type = "response.output_item.added" -> OnItemAdded(s, event, now)
    [] event.type = "response.function_call_arguments.delta" -> OnArgumentsDelta(s, event)
    [] event.type = "response.output_item.done" -> StreamOnItemDone(s, event, mapping)
    [] event.type = "response.output_text.delta" -> StreamOnTextDelta(s, event, mode)
    [] event.type = "response.completed" -> StreamOnCompleted(s, event, mode)
    [] OTHER -> s

StreamOnData(s, data, mapping, mode, now) ==
  IF IsEventJSON(data) THEN StreamOnEvent(s, ParseEvent(data), mapping, mode, now) ELSE s

RECURSIVE StreamLines(_, _, _, _, _)
\* the for loop of doStream over the complete lines of one read; the
\* sentinel closes the caller-facing stream and returns from start()
StreamLines(s, lines, mapping, mode, now) ==
  IF lines = <<>> THEN s
  ELSE
    LET line == Head(lines) IN
    IF ~StartsWith(line, DataPrefix) THEN StreamLines(s, Tail(lines), mapping, mode, now)
    ELSE
      LET data == Slice(line, 6) IN
      IF data = DoneSentinel
      THEN [s EXCEPT !.closeCount = @ + 1, !.returned = TRUE]
      ELSE StreamLines(StreamOnData(s, data, mapping, mode, now),
                       Tail(lines), mapping, mode, now)

\* one iteration of the read loop after reader.read() gave a chunk:
\* decode, append to the buffer, split, keep the last piece, handle the rest
OnChunk(s, path, value, mapping, mode, now) ==
  LET decoded == Decode(s.decoderPending, value)
      pieces == Split(s.buffer \o decoded.text, NL)
      s1 == [s EXCEPT !.decoderPending = decoded.pending, !.buffer = Last(pieces)]
  IN IF path = "generate"
     THEN GenLines(s1, Front(pieces), mapping, now)
     ELSE StreamLines(s1, Front(pieces), mapping, mode, now)

(***************************************************************************)
(* Tool Identity Mapper: prepareChatGPTTools.                              *)
(***************************************************************************)
CODEX_SHELL_TOOL == [type |-> "function", name |-> NameShell, strict |-> FALSE]

CODEX_UPDATE_PLAN_TOOL == [type |-> "function", name |-> NameUpdatePlan, strict |-> FALSE]

KwExecute == <<"e", "x", "e", "c", "u", "t", "e">>
KwCommand == <<"c", "o", "m", "m", "a", "n", "d">>
KwPlan == <<"p", "l", "a", "n">>
KwTodo == <<"t", "o", "d", "o">>

\* the first condition of the loop body: command execution tools
IsShellLike(name) ==
  \/ name = NameBash
  \/ name = NameShell
  \/ Includes(name, KwExecute)
  \/ Includes(name, KwCommand)

\* the second condition of the loop body: planning tools
IsPlanLike(name) ==
  \/ name = NameTodoWrite
  \/ name = NameUpdatePlan
  \/ Includes(name, KwPlan)
  \/ Includes(name, KwTodo)

InitialPrepare ==
  [chatGPTTools |-> <<>>, hasShellTool |-> FALSE, hasUpdatePlanTool |-> FALSE,
   warnings |-> <<>>, toolMapping |-> EmptyMap]

\* PrepareOneTool recording only the first caller tool of each family
PrepareOneToolFirstWins(acc, tool) ==
  IF tool.type = "function" THEN
    IF IsShellLike(tool.name) THEN
      [acc EXCEPT
         !.chatGPTTools = IF acc.hasShellTool THEN @ ELSE Append(@, CODEX_SHELL_TOOL),
         !.hasShellTool = TRUE,
         !.toolMapping = IF acc.hasShellTool THEN @ ELSE MapSet(@, NameShell, tool.name)]
    ELSE IF IsPlanLike(tool.name) THEN
      [acc EXCEPT
         !.chatGPTTools = IF acc.hasUpdatePlanTool THEN @ ELSE Append(@, CODEX_UPDATE_PLAN_TOOL),
         !.hasUpdatePlanTool = TRUE,
         !.toolMapping = IF acc.hasUpdatePlanTool THEN @
                         ELSE MapSet(@, NameUpdatePlan, tool.name)]
    ELSE
      [acc EXCEPT !.warnings =
         Append(@, [type |-> "unsupported-tool", tool |-> tool.name])]
  ELSE
    [acc EXCEPT !.warnings =
       Append(@, [type |-> "other", tool |-> tool.name])]

\* PrepareOneTool without the hasShellTool / hasUpdatePlanTool guards
PrepareOneToolNoGuard(acc, tool) ==
  IF tool.type = "function" THEN
    IF IsShellLike(tool.name) THEN
      [acc EXCEPT
         !.chatGPTTools = Append(@, CODEX_SHELL_TOOL),
         !.hasShellTool = TRUE,
         !.toolMapping = MapSet(@, NameShell, tool.name)]
    ELSE IF IsPlanLike(tool.name) THEN
      [acc EXCEPT
         !.chatGPTTools = Append(@, CODEX_UPDATE_PLAN_TOOL),
         !.hasUpdatePlanTool = TRUE,
         !.toolMapping = MapSet(@, NameUpdatePlan, tool.name)]
    ELSE
      [acc EXCEPT !.warnings =
         Append(@, [type |-> "unsupported-tool", tool |-> tool.name])]
  ELSE
    [acc EXCEPT !.warnings =
       Append(@, [type |-> "other", tool |-> tool.name])]

\* PrepareOneTool without the warning for a function tool no rule matches
PrepareOneToolNoWarning(acc, tool) ==
  IF tool.type = "function" THEN
    IF IsShellLike(tool.name) THEN
      [acc EXCEPT
         !.chatGPTTools = IF acc.hasShellTool THEN @ ELSE Append(@, CODEX_SHELL_TOOL),
         !.hasShellTool = TRUE,
         !.toolMapping = MapSet(@, NameShell, tool.name)]
    ELSE IF IsPlanLike(tool.name) THEN
      [acc EXCEPT
         !.chatGPTTools = IF acc.hasUpdatePlanTool THEN @ ELSE Append(@, CODEX_UPDATE_PLAN_TOOL),
         !.hasUpdatePlanTool = TRUE,
         !.toolMapping = MapSet(@, NameUpdatePlan, tool.name)]
    ELSE acc
  ELSE
    [acc EXCEPT !.warnings =
       Append(@, [type |-> "other", tool |-> tool.name])]

\* one iteration of the loop over the caller's tools
PrepareOneTool(acc, tool) ==
  IF tool.type = "function" THEN
    IF IsShellLike(tool.name) THEN
      [acc EXCEPT
         !.chatGPTTools = IF acc.hasShellTool THEN @ ELSE Append(@, CODEX_SHELL_TOOL),
         !.hasShellTool = TRUE,
         !.toolMapping = MapSet(@, NameShell, tool.name)]
    ELSE IF IsPlanLike(tool.name) THEN
      [acc EXCEPT
         !.chatGPTTools = IF acc.hasUpdatePlanTool THEN @ ELSE Append(@, CODEX_UPDATE_PLAN_TOOL),
         !.hasUpdatePlanTool = TRUE,
         !.toolMapping = MapSet(@, NameUpdatePlan, tool.name)]
    ELSE
      [acc EXCEPT !.warnings =
         Append(@, [type |-> "unsupported-tool", tool |-> tool.name])]
  ELSE
    [acc EXCEPT !.warnings =
       Append(@, [type |-> "other", tool |-> tool.name])]

RECURSIVE PrepareLoop(_, _)
PrepareLoop(acc, tools) ==
  IF tools = <<>> THEN acc
  ELSE PrepareLoop(PrepareOneTool(acc, Head(tools)), Tail(tools))

\* ResolveToolChoice without the default for a choice left unset
ResolveToolChoiceNoDefault(toolChoice, chatGPTTools) ==
  IF toolChoice \in {"auto", "none", "required"} THEN toolChoice
  ELSE IF toolChoice = "tool" THEN "auto"
  ELSE "undefined"

\* the tool choice handling; toolChoice is "undefined" or the type of the
\* caller's choice object
ResolveToolChoice(toolChoice, chatGPTTools) ==
  IF toolChoice = "undefined" /\ Len(chatGPTTools) > 0 THEN "auto"
  ELSE IF toolChoice \in {"auto", "none", "required"} THEN toolChoice
  ELSE IF toolChoice = "tool" THEN "auto"
  ELSE "undefined"

\* tools is <<>> when the caller gave none (undefined or an empty array)
prepareChatGPTTools(tools, toolChoice) ==
  LET acc == PrepareLoop(InitialPrepare, tools) IN
    [tools |-> acc.chatGPTTools,
     toolChoice |-> ResolveToolChoice(toolChoice, acc.chatGPTTools),
     warnings |-> acc.warnings \o
                  (IF toolChoice = "tool"
                   THEN <<[type |-> "unsupported-setting", tool |-> <<>>]>>
                   ELSE <<>>),
     toolMapping |-> acc.toolMapping]

(***************************************************************************)
(* Reasoning Policy: supportsReasoning, createReasoningParam and the part  *)
(* of getArgs that attaches the reasoning configuration.                   *)
(***************************************************************************)
IdGpt5 == <<"g", "p", "t", "-", "5">>
IdGpt5Upper == <<"G", "P", "T", "-", "5">>
IdGpt5Codex == <<"g", "p", "t", "-", "5", "-", "c", "o", "d", "e", "x">>
IdCodexMini == <<"c", "o", "d", "e", "x", "-", "m", "i", "n", "i", "-", "l", "a", "t", "e", "s", "t">>
IdCodexUpper == <<"C", "o", "d", "e", "x", "-", "2">>
IdO3 == <<"o", "3">>
IdGpt4o == <<"g", "p", "t", "-", "4", "o">>
IdLlama == <<"l", "l", "a", "m", "a">>

ModelIds == {IdGpt5, IdGpt5Upper, IdGpt5Codex, IdCodexMini, IdCodexUpper, IdO3, IdGpt4o, IdLlama}

LowerOf(c) ==
  CASE c = "G" -> "g" [] c = "P" -> "p" [] c = "T" -> "t"
    [] c = "C" -> "c" [] c = "O" -> "o" [] OTHER -> c

\* String.prototype.toLowerCase
ToLowerCase(str) == [i \in 1..Len(str) |-> LowerOf(str[i])]

PrefixGpt5 == <<"g", "p", "t", "-", "5">>
PrefixCodex == <<"c", "o", "d", "e", "x">>
PrefixO == <<"o">>

\* supportsReasoning without the toLowerCase
supportsReasoningCaseSensitive(modelId) ==
  \/ StartsWith(modelId, PrefixGpt5)
  \/ StartsWith(modelId, PrefixCodex)
  \/ StartsWith(modelId, PrefixO)

supportsReasoning(modelId) ==
  LET modelName == ToLowerCase(modelId) IN
    \/ StartsWith(modelName, PrefixGpt5)
    \/ StartsWith(modelName, PrefixCodex)
    \/ StartsWith(modelName, PrefixO)

\* a ?? b, for settings that are "undefined", "null" or a value
Coalesce(a, b) == IF a \in {"undefined", "null"} THEN b ELSE a

ReasoningNull == [null |-> TRUE, effort |-> "", summary |-> ""]

ReasoningOf(effort, summary) == [null |-> FALSE, effort |-> effort, summary |-> summary]

\* createReasoningParam without the test of an effort that is null
createReasoningParamNoDisable(modelId, config) ==
  IF ~supportsReasoning(modelId) THEN ReasoningNull
  ELSE
    LET effort == Coalesce(config.reasoningEffort, "medium")
        summary == Coalesce(config.reasoningSummary, "auto")
    IN ReasoningOf(effort, summary)

\* createReasoningParam without the test of supportsReasoning
createReasoningParamAnyModel(modelId, config) ==
  IF config.reasoningEffort = "null" THEN ReasoningNull
  ELSE
    LET effort == Coalesce(config.reasoningEffort, "medium")
        summary == Coalesce(config.reasoningSummary, "auto")
    IN ReasoningOf(effort, summary)

\* config is the model's configuration: reasoningEffort and reasoningSummary
createReasoningParam(modelId, config) ==
  IF ~supportsReasoning(modelId) THEN ReasoningNull
  ELSE IF config.reasoningEffort = "null" THEN ReasoningNull
  ELSE
    LET effort == Coalesce(config.reasoningEffort, "medium")
        summary == Coalesce(config.reasoningSummary, "auto")
    IN IF summary = "null"
       THEN ReasoningOf(effort, "undefined")
       ELSE ReasoningOf(effort, summary)

EncryptedContentFlag == "reasoning.encrypted_content"

\* the include list and the compatibility warnings getArgs derives from
\* the reasoning parameter
IncludeOf(reasoning) ==
  IF reasoning.null THEN <<>> ELSE <<EncryptedContentFlag>>

ReasoningWarnings(reasoning) ==
  IF ~reasoning.null /\ reasoning.summary \in {"none", "concise"}
  THEN <<[type |-> "other", message |-> "reasoning-summary-compatibility"]>>
  ELSE <<>>

\* The instruction files read when the module is loaded; a file that cannot
\* be read gives the fallback.  A text is a sequence of pieces, '' is <<>>.
FileBase == "codex-instructions.txt"
FileCodex == "codex-gpt5-codex-instructions.txt"
FileApplyPatch == "codex-apply-patch-instructions.txt"

InstructionFileNames == {FileBase, FileCodex, FileApplyPatch}

FileText(filename) == <<"contents of", filename>>

loadInstructions(files, filename, fallback) ==
  IF filename \in files THEN FileText(filename) ELSE fallback

baseInstructions(files) ==
  loadInstructions(files, FileBase, <<"You are a helpful assistant.">>)

codexModelInstructions(files) ==
  loadInstructions(files, FileCodex, baseInstructions(files))

applyPatchInstructions(files) == loadInstructions(files, FileApplyPatch, <<>>)

\* [a, b].join('\n')
JoinLines(a, b) == a \o <<"\n">> \o b

PrefixCodexDash == <<"c", "o", "d", "e", "x", "-">>
PrefixGpt5Codex == <<"g", "p", "t", "-", "5", "-", "c", "o", "d", "e", "x">>

\* getInstructions without the toLowerCase
getInstructionsCaseSensitive(modelId, files) ==
  IF StartsWith(modelId, PrefixCodexDash) \/ StartsWith(modelId, PrefixGpt5Codex)
  THEN codexModelInstructions(files)
  ELSE IF StartsWith(modelId, PrefixGpt5) /\ applyPatchInstructions(files) # <<>>
  THEN JoinLines(baseInstructions(files), applyPatchInstructions(files))
  ELSE baseInstructions(files)

getInstructions(modelId, files) ==
  LET modelName == ToLowerCase(modelId) IN
    IF StartsWith(modelName, PrefixCodexDash) \/ StartsWith(modelName, PrefixGpt5Codex)
    THEN codexModelInstructions(files)
    ELSE IF StartsWith(modelName, PrefixGpt5) /\ applyPatchInstructions(files) # <<>>
    THEN JoinLines(baseInstructions(files), applyPatchInstructions(files))
    ELSE baseInstructions(files)

\* createModel of the provider: per-model options over provider settings
createModelConfig(options, modelOptions) ==
  [reasoningEffort |-> Coalesce(modelOptions.reasoningEffort, options.reasoningEffort),
   reasoningSummary |-> Coalesce(modelOptions.reasoningSummary, options.reasoningSummary)]

(***************************************************************************)
(* Message Translator: convertToChatGPTMessages.  The source has the       *)
(* function in two variants, "v2" (LanguageModelV2Prompt) and "v1"         *)
(* (LanguageModelV1Prompt).  A string built from several values is a       *)
(* sequence of pieces; '' is <<>>.                                         *)
(***************************************************************************)
NoValue == [kind |-> "none", value |-> ""]

BlankPart ==
  [type |-> "", text |-> "", image |-> NoValue, mediaType |-> <<>>,
   data |-> NoValue, filename |-> "", toolCallId |-> "", toolName |-> <<>>,
   args |-> "undefined", argsText |-> <<>>, input |-> "undefined"]

\* a ChatGPTMessage; absent fields are "undefined", absent tool_calls <<>>
BackendMessage(role, content) ==
  [role |-> role, content |-> content, contentNull |-> FALSE,
   name |-> "undefined", tool_calls |-> <<>>, tool_call_id |-> "undefined"]

OtherWarning(message) == [type |-> "other", message |-> message]

RECURSIVE JoinWith(_, _)
\* Array.prototype.join
JoinWith(strings, separator) ==
  IF strings = <<>> THEN <<>>
  ELSE IF Len(strings) = 1 THEN strings[1]
  ELSE strings[1] \o separator \o JoinWith(Tail(strings), separator)

BytesABC == <<65, 66, 67>>

\* btoa of the characters of the bytes
convertUint8ArrayToBase64(array) ==
  CASE array = BytesABC -> "QUJD"
    [] array = <<>> -> ""

PrefixImage == <<"i", "m", "a", "g", "e", "/">>

TxtEmptyObject == <<"{", "}">>

\* JSON.stringify of a value of a tool call or tool result; of undefined it
\* is undefined, the absent string <<>>
StringifyValue(v) ==
  IF v = "undefined" THEN <<>>
  ELSE IF v = "empty_object" THEN TxtEmptyObject
  ELSE JSONStringify(v)

\* v2, one part of a user message; acc has the strings and the warnings
UserPartV2(acc, part) ==
  IF part.type = "text" THEN [acc EXCEPT !.parts = Append(@, <<part.text>>)]
  ELSE IF part.type = "file" THEN
    IF StartsWith(part.mediaType, PrefixImage) THEN
      IF part.data.kind = "URL"
      THEN [acc EXCEPT !.parts = Append(@, <<"[Image: ", part.data.value, "]">>)]
      ELSE IF part.data.kind = "string"
      THEN [acc EXCEPT !.parts =
              Append(@, <<"[Image: data:">> \o part.mediaType
                        \o <<";base64,", part.data.value, "]">>)]
      ELSE [acc EXCEPT !.parts =
              Append(@, <<"[Image: data:">> \o part.mediaType
                        \o <<";base64,", convertUint8ArrayToBase64(part.data.value), "]">>)]
    ELSE [acc EXCEPT !.parts =
            Append(@, <<"[File: ",
                        IF part.filename = "" THEN "unnamed" ELSE part.filename,
                        "]">>)]
  ELSE [acc EXCEPT !.warnings =
          Append(@, OtherWarning(<<"Unsupported content part type: ", part.type>>))]

\* UserPartV1 without the warning for a part of an unknown type
UserPartV1NoWarning(acc, part) ==
  IF part.type = "text" THEN [acc EXCEPT !.parts = Append(@, <<part.text>>)]
  ELSE IF part.type = "image" THEN
    IF part.image.kind \in {"string", "url-object"}
    THEN [acc EXCEPT !.parts = Append(@, <<"[Image: ", part.image.value, "]">>)]
    ELSE [acc EXCEPT
            !.warnings = Append(@, OtherWarning(
                           <<"Unsupported image content; converted to placeholder.">>)),
            !.parts = Append(@, <<"[Image]">>)]
  ELSE acc

\* v1, one part of a user message
UserPartV1(acc, part) ==
  IF part.type = "text" THEN [acc EXCEPT !.parts = Append(@, <<part.text>>)]
  ELSE IF part.type = "image" THEN
    IF part.image.kind \in {"string", "url-object"}
    THEN [acc EXCEPT !.parts = Append(@, <<"[Image: ", part.image.value, "]">>)]
    ELSE [acc EXCEPT
            !.warnings = Append(@, OtherWarning(
                           <<"Unsupported image content; converted to placeholder.">>)),
            !.parts = Append(@, <<"[Image]">>)]
  ELSE [acc EXCEPT !.warnings =
          Append(@, OtherWarning(<<"Unsupported content part type: ", part.type>>))]

RECURSIVE UserParts(_, _, _)
\* the loop over the parts of a user message
UserParts(variant, acc, parts) ==
  IF parts = <<>> THEN acc
  ELSE UserParts(variant,
                 IF variant = "v2" THEN UserPartV2(acc, Head(parts))
                 ELSE UserPartV1(acc, Head(parts)),
                 Tail(parts))

InitialParts == [parts |-> <<>>, warnings |-> <<>>]

\* case 'system'
ConvertSystem(variant, systemMessageMode, out, message) ==
  IF variant = "v2" THEN
    IF systemMessageMode = "user"
    THEN [out EXCEPT
            !.messages = Append(@, [BackendMessage("user", <<message.text>>)
                                      EXCEPT !.name = "system"]),
            !.warnings = Append(@, OtherWarning(
              <<"System messages are converted to user messages with name=\"system\"">>))]
    ELSE [out EXCEPT !.messages = Append(@, BackendMessage("user", <<message.text>>))]
  ELSE
    IF systemMessageMode = "user"
    THEN [out EXCEPT
            !.messages = Append(@, BackendMessage("user", <<message.text>>)),
            !.warnings = Append(@, OtherWarning(
              <<"System messages are converted to user messages">>))]
    ELSE out

\* case 'user'
ConvertUser(variant, out, message) ==
  IF variant = "v1" /\ message.isString
  THEN [out EXCEPT !.messages = Append(@, BackendMessage("user", <<message.text>>))]
  ELSE IF variant = "v2" /\ Len(message.parts) = 1 /\ message.parts[1].type = "text"
  THEN [out EXCEPT !.messages =
          Append(@, BackendMessage("user", <<message.parts[1].text>>))]
  ELSE LET acc == UserParts(variant, InitialParts, message.parts) IN
         [out EXCEPT
            !.warnings = @ \o acc.warnings,
            !.messages = Append(@, BackendMessage("user", JoinWith(acc.parts, <<"\n">>)))]

\* the arguments of one tool call of an assistant message
ToolCallArguments(variant, part) ==
  IF variant = "v2" THEN StringifyValue(part.input)
  ELSE IF part.argsText # <<>> THEN part.argsText
  ELSE StringifyValue(Coalesce(part.input, Coalesce(part.args, "empty_object")))

\* case 'assistant'
ConvertAssistant(variant, out, message) ==
  LET texts == SelectSeq(message.parts, LAMBDA part : part.type = "text")
      textParts == [i \in 1..Len(texts) |-> <<texts[i].text>>]
      calls == SelectSeq(message.parts, LAMBDA part : part.type = "tool-call")
      toolCalls == [i \in 1..Len(calls) |->
                      [id |-> calls[i].toolCallId, type |-> "function",
                       name |-> calls[i].toolName,
                       arguments |-> ToolCallArguments(variant, calls[i])]]
      hasString == variant = "v1" /\ message.isString
      content == IF hasString THEN <<message.text>>
                 ELSE JoinWith(textParts, <<>>)
      contentNull == ~hasString /\ Len(textParts) = 0
  IN [out EXCEPT !.messages =
        Append(@, [BackendMessage("assistant", content)
                     EXCEPT !.contentNull = contentNull,
                            !.tool_calls = IF hasString THEN <<>> ELSE toolCalls])]

TxtOutputObject == <<"{", "o", "}">>

\* the content of one tool response; <<"TypeError">> when the code throws
ToolResponseContent(variant, toolResponse) ==
  IF variant = "v2" THEN
    IF toolResponse.output.kind = "undefined" THEN <<"TypeError">>
    ELSE IF toolResponse.output.kind \in {"text", "error-text"}
    THEN <<toolResponse.output.text>>
    ELSE StringifyValue(toolResponse.output.value)
  ELSE
    LET output == IF toolResponse.result.kind # "undefined"
                  THEN toolResponse.result ELSE toolResponse.output
    IN IF output.kind \in {"text", "error-text"} THEN <<output.text>>
       ELSE IF output.kind = "string" THEN <<output.text>>
       ELSE IF output.kind = "undefined" THEN TxtEmptyObject
       ELSE IF output.value = "undefined" THEN TxtOutputObject
       ELSE StringifyValue(output.value)

RECURSIVE ConvertTool(_, _, _)
\* case 'tool': one backend message for each tool response
ConvertTool(variant, out, responses) ==
  IF responses = <<>> \/ out.threw THEN out
  ELSE LET content == ToolResponseContent(variant, Head(responses)) IN
    IF content = <<"TypeError">> THEN [out EXCEPT !.threw = TRUE]
    ELSE ConvertTool(variant,
           [out EXCEPT !.messages =
              Append(@, [BackendMessage("tool", content)
                           EXCEPT !.tool_call_id = Head(responses).toolCallId])],
           Tail(responses))

\* the body of the loop over the prompt: switch (message.role)
ConvertMessage(variant, systemMessageMode, out, message) ==
  CASE message.role = "system" -> ConvertSystem(variant, systemMessageMode, out, message)
    [] message.role = "user" -> ConvertUser(variant, out, message)
    [] message.role = "assistant" -> ConvertAssistant(variant, out, message)
    [] message.role = "tool" -> ConvertTool(variant, out, message.responses)
    [] OTHER -> [out EXCEPT !.warnings =
                   Append(@, OtherWarning(<<"Unsupported message role: ", message.role>>))]

InitialConversion == [messages |-> <<>>, warnings |-> <<>>, threw |-> FALSE]

RECURSIVE ConvertLoop(_, _, _, _)
ConvertLoop(variant, systemMessageMode, out, prompt) ==
  IF prompt = <<>> \/ out.threw THEN out
  ELSE ConvertLoop(variant, systemMessageMode,
                   ConvertMessage(variant, systemMessageMode, out, Head(prompt)),
                   Tail(prompt))

\* systemMessageMode = 'user' is the default of the parameter
convertToChatGPTMessages(variant, prompt, systemMessageMode) ==
  ConvertLoop(variant,
              IF systemMessageMode = "undefined" THEN "user" ELSE systemMessageMode,
              InitialConversion, prompt)

(***************************************************************************)
(* Credentials: DefaultAuthProvider, loadCredentialsFromFile and           *)
(* refreshAccessToken.  An absent string is "", an absent expiresAt is 0.  *)
(***************************************************************************)
NoCredentials ==
  [accessToken |-> "", accountId |-> "", refreshToken |-> "", expiresAt |-> 0]

DefaultAuthPath == "~/.codex/auth.json"

Loaded(value) == [ok |-> TRUE, value |-> value, error |-> <<>>]

LoadFailed(error) == [ok |-> FALSE, value |-> NoCredentials, error |-> error]

\* loadCredentialsFromFile(filePath): files maps the paths of the files
\* that exist (and hold usable tokens) to the credentials read from them
loadCredentialsFromFile(files, filePath) ==
  LET path == IF filePath # "" THEN filePath ELSE DefaultAuthPath
  IN IF path \in DOMAIN files THEN Loaded(files[path])
     ELSE LoadFailed(<<"Auth file not found at ", path>>)

\* DefaultAuthProvider.loadCredentials
loadCredentials(options, env, files) ==
  IF options.credentials # NoCredentials THEN Loaded(options.credentials)
  ELSE IF env.CHATGPT_OAUTH_ACCESS_TOKEN # "" /\ env.CHATGPT_OAUTH_ACCOUNT_ID # ""
  THEN Loaded([accessToken |-> env.CHATGPT_OAUTH_ACCESS_TOKEN,
               accountId |-> env.CHATGPT_OAUTH_ACCOUNT_ID,
               refreshToken |-> env.CHATGPT_OAUTH_REFRESH_TOKEN,
               expiresAt |-> 0])
  ELSE IF options.credentialsPath # ""
  THEN loadCredentialsFromFile(files, options.credentialsPath)
  ELSE LET fromDefault == loadCredentialsFromFile(files, "")
       IN IF fromDefault.ok THEN fromDefault
          ELSE LoadFailed(<<"No ChatGPT OAuth credentials found">>)

RefreshWindow == 60000

\* DefaultAuthProvider.shouldRefresh
shouldRefresh(held, now) ==
  IF held.expiresAt = 0 THEN FALSE
  ELSE held.expiresAt - now < RefreshWindow

\* the promise an async function returns
Pending(accountId) == [state |-> "pending", accountId |-> accountId,
                       value |-> NoCredentials, reason |-> <<>>]

Rejected(reason) == [state |-> "rejected", accountId |-> "",
                     value |-> NoCredentials, reason |-> reason]

\* DefaultAuthProvider.refreshToken, up to its first await: without a
\* refresh token it throws, with one the request of refreshAccessToken is sent
refreshToken(held) ==
  IF held.refreshToken = "" THEN Rejected(<<"No refresh token available">>)
  ELSE Pending(held.accountId)

\* what refreshAccessToken resolves with for a response that is ok
RefreshedCredentials(accountId, now, lifetime) ==
  [accessToken |-> "refreshed-access-token",
   refreshToken |-> "refreshed-refresh-token",
   accountId |-> accountId,
   expiresAt |-> now + lifetime]

(***************************************************************************)
(* State.                                                                  *)
(***************************************************************************)
VARIABLES
  \* one doGenerate or doStream call
  path,               \* "generate" | "stream"
  mode,               \* options.mode.type
  pc,                 \* where the call is
  toolMapping,        \* the identity map getArgs returned
  body,               \* the bytes of the response body
  pos,                \* how many of them the reader has delivered
  activeToolCalls, buffer, decoderPending, text, toolCallsCollected,
  finishReason, usage, warnings, accumulatedText,
  emitted,            \* the parts enqueued on the caller-facing stream
  closeCount,         \* calls of controller.close()
  streamState,        \* "none" | "readable" | "closed" | "errored"
  readerObtained,     \* response.body.getReader() was called
  releaseCount,       \* calls of reader.releaseLock()
  response,           \* status, status text and error body of the response
  errorMessage,       \* the message of the error the call rejected with
  result,             \* what doGenerate returned
  \* one prepareChatGPTTools call and the tool calls reported after it
  callerTools, callerToolChoice, prepared, reportedCalls, toolsPc,
  \* one model construction and the reasoning part of its getArgs
  modelId, providerOptions, modelOptions, config, reasoning, include,
  argWarnings, reasoningPc,
  instructionFiles,   \* the instruction files that could be read
  instructions,       \* the instructions of the request
  \* one convertToChatGPTMessages call
  translatorVariant,  \* "v1" | "v2": the variant of the function
  systemMessageMode, prompt,
  chatgptMessages,    \* the messages it returned
  messageWarnings,    \* the warnings it returned
  translatorPc,       \* "input" | "converted" | "threw"
  \* calls of mapChatGPTFinishReason
  finishVariant,      \* "v1" | "v2": the variant of the function
  lookups,            \* the calls made: the argument and what was returned
  \* the stream doStream returned, its source and its consumer
  netChunks,          \* the chunks the response body delivers
  netReads,           \* reads of the response body that gave a chunk
  sourceState,        \* the locals of the start callback
  taken,              \* parts the caller has read from the stream
  sourcePc,           \* "reading" | "closed" | "ended"
  \* one doGenerate or doStream call, up to the response of the backend
  requestPath,        \* "generate" | "stream"
  configFetch,        \* config.fetch: "undefined" | "custom"
  callHeaders,        \* options.headers
  requestPc,          \* "start" | "args" | "headers" | "awaiting" | "reading" | "rejected"
  requestArgs,        \* what getArgs returned: "" before, "args" after
  credentialCalls,    \* invocations of authProvider.getCredentials
  credentialsAtArgs,  \* the invocations made when getArgs returned
  authHeaders,        \* what getAuthHeaders returned
  requests,           \* the HTTP requests issued, in order
  requestResponse,    \* the response of the backend
  requestError,       \* the message of the error the call rejected with
  \* one provider made by createChatGPTOAuth and the getCredentials
  \* invocations on its credential source
  settings,           \* credentials, credentialsPath, authProvider, autoRefresh
  processEnv,         \* the CHATGPT_OAUTH_* environment variables
  authFiles,          \* the credentials files that exist, by path
  clock,              \* Date.now()
  heldCredentials,    \* this.credentials of the DefaultAuthProvider
  refreshPromise,     \* this.refreshPromise: a promise, or 0 for undefined
  promises,           \* the promises refreshToken() returned
  refreshRequests,    \* the requests sent to the token endpoint
  invocations,        \* the getCredentials invocations
  callOptions,        \* the options getArgs is called with: mode, tools, prompt
  assembledArgs,      \* the args of the request getArgs returns
  getArgsPc           \* where the call of getArgs is

callVars ==
  <<path, mode, pc, toolMapping, body, pos, activeToolCalls, buffer,
    decoderPending, text, toolCallsCollected, finishReason, usage, warnings,
    accumulatedText, emitted, closeCount, streamState, readerObtained,
    releaseCount, response, errorMessage, result>>

toolVars == <<callerTools, callerToolChoice, prepared, reportedCalls, toolsPc>>

reasoningVars ==
  <<modelId, providerOptions, modelOptions, config, reasoning, include,
    argWarnings, reasoningPc, instructionFiles, instructions>>

messageVars ==
  <<translatorVariant, systemMessageMode, prompt, chatgptMessages,
    messageWarnings, translatorPc>>

finishVars == <<finishVariant, lookups>>

streamVars == <<netChunks, netReads, sourceState, taken, sourcePc>>

requestVars ==
  <<requestPath, configFetch, callHeaders, requestPc, requestArgs,
    credentialCalls, credentialsAtArgs, authHeaders, requests, requestResponse,
    requestError>>

authVars ==
  <<settings, processEnv, authFiles, clock, heldCredentials, refreshPromise,
    promises, refreshRequests, invocations>>

argsVars == <<callOptions, assembledArgs, getArgsPc>>

vars == <<callVars, toolVars, reasoningVars, messageVars, finishVars, streamVars, requestVars, authVars, argsVars>>

NoResponse == [status |-> 0, statusText |-> "", errorText |-> ""]

NoResult ==
  [text |-> <<>>, toolCalls |-> <<>>, finishReason |-> "",
   usage |-> [promptTokens |-> 0, completionTokens |-> 0], warnings |-> <<>>]

\* the tools the caller declares in the calls of the reducer specification
ReducerTools ==
  <<[type |-> "function", name |-> NameBash],
    [type |-> "function", name |-> NameMyPlan]>>

\* no call is being made
CallIdle ==
  /\ path = "none" /\ mode = "none" /\ pc = "idle"
  /\ toolMapping = EmptyMap
  /\ body = <<>> /\ pos = 0
  /\ activeToolCalls = EmptyMap /\ buffer = <<>> /\ decoderPending = ""
  /\ text = <<>> /\ toolCallsCollected = <<>>
  /\ finishReason = "stop"
  /\ usage = [promptTokens |-> 0, completionTokens |-> 0]
  /\ warnings = <<>> /\ accumulatedText = <<>> /\ emitted = <<>>
  /\ closeCount = 0 /\ streamState = "none"
  /\ readerObtained = FALSE /\ releaseCount = 0
  /\ response = NoResponse
  /\ errorMessage = <<>> /\ result = NoResult

ToolsIdle ==
  /\ callerTools = <<>> /\ callerToolChoice = "undefined"
  /\ prepared = prepareChatGPTTools(<<>>, "undefined")
  /\ reportedCalls = <<>> /\ toolsPc = "idle"

NoOptions == [reasoningEffort |-> "undefined", reasoningSummary |-> "undefined"]

ReasoningIdle ==
  /\ modelId = <<>> /\ providerOptions = NoOptions /\ modelOptions = NoOptions
  /\ config = NoOptions /\ reasoning = ReasoningNull /\ include = <<>>
  /\ argWarnings = <<>> /\ reasoningPc = "idle"
  /\ instructionFiles = {} /\ instructions = <<>>

MessagesIdle ==
  /\ translatorVariant = "v1" /\ systemMessageMode = "undefined"
  /\ prompt = <<>> /\ chatgptMessages = <<>> /\ messageWarnings = <<>>
  /\ translatorPc = "idle"

FinishIdle == finishVariant = "v1" /\ lookups = <<>>

NoSettings ==
  [credentials |-> NoCredentials, credentialsPath |-> "",
   authProvider |-> "undefined", autoRefresh |-> "undefined"]

NoEnv ==
  [CHATGPT_OAUTH_ACCESS_TOKEN |-> "", CHATGPT_OAUTH_ACCOUNT_ID |-> "",
   CHATGPT_OAUTH_REFRESH_TOKEN |-> ""]

AuthIdle ==
  /\ settings = NoSettings /\ processEnv = NoEnv /\ authFiles = EmptyMap
  /\ clock = 0 /\ heldCredentials = NoCredentials /\ refreshPromise = 0
  /\ promises = <<>> /\ refreshRequests = <<>> /\ invocations = <<>>

RequestIdle ==
  /\ requestPath = "none" /\ configFetch = "undefined" /\ callHeaders = EmptyMap
  /\ requestPc = "idle" /\ requestArgs = "" /\ credentialCalls = 0
  /\ credentialsAtArgs = 0 /\ authHeaders = EmptyMap /\ requests = <<>>
  /\ requestResponse = NoResponse /\ requestError = <<>>

StreamIdle ==
  /\ netChunks = <<>> /\ netReads = 0 /\ sourceState = InitialReduction
  /\ taken = 0 /\ sourcePc = "idle"

NoArgs == [input |-> <<>>, tools |-> <<>>, tool_choice |-> "undefined"]

ArgsIdle ==
  /\ callOptions = [mode |-> "none", tools |-> <<>>, prompt |-> <<>>]
  /\ assembledArgs = NoArgs /\ getArgsPc = "idle"

(***************************************************************************)
(* One call of doGenerate or doStream, from the fetch on.                  *)
(***************************************************************************)
\* The lines a body is made of.  A body carries text frames or tool-call
\* frames; in object-json mode it may also carry the text of an object
\* next to a tool call (getArgs sends no tools in that mode, but the switch
\* on the event type is the same in every mode).
TextLines == {LineTextEAcute, LineCompleted, LineMalformed, LineSentinel, LineEmpty}

ToolLines == {LineAdded, LineArgsDelta, LineDoneShellExtra, LineDoneShellBad, LineCompleted}

ObjectLines == {LineTextJSON, LineAdded, LineDoneShellExtra, LineCompleted}

\* a function call whose frames carry no item id, next to one that has an id
FallbackLines == {LineAddedNoId, LineDoneNoId, LineDoneShellExtra}

RECURSIVE SeqsUpTo(_, _)
\* the sequences over S of length at most n
SeqsUpTo(S, n) ==
  IF n = 0 THEN {<<>>}
  ELSE LET shorter == SeqsUpTo(S, n - 1) IN
         shorter \cup {Append(q, x) : q \in {r \in shorter : Len(r) = n - 1}, x \in S}

\* the bytes of a body made of the given lines, each ended by a newline
BodyOf(lines) == Concat([i \in 1..Len(lines) |-> Append(lines[i], NL)])

\* a body has at least one line
BodiesOver(alphabet) ==
  {BodyOf(lines) : lines \in SeqsUpTo(alphabet, MaxFrames) \ {<<>>}}

Bodies(m) ==
  IF m = "regular"
  THEN BodiesOver(TextLines) \cup BodiesOver(ToolLines) \cup BodiesOver(FallbackLines)
  ELSE BodiesOver(TextLines) \cup BodiesOver(ObjectLines)

CallInit ==
  /\ path \in {"generate", "stream"}
  /\ mode \in {"regular", "object-json"}
  /\ pc = "fetch"
  /\ toolMapping =
       prepareChatGPTTools(IF mode = "regular" THEN ReducerTools ELSE <<>>,
                           "undefined").toolMapping
  /\ body = <<>> /\ pos = 0
  /\ activeToolCalls = EmptyMap /\ buffer = <<>> /\ decoderPending = ""
  /\ text = <<>> /\ toolCallsCollected = <<>>
  /\ finishReason = "stop"
  /\ usage = [promptTokens |-> 0, completionTokens |-> 0]
  /\ warnings = <<>> /\ accumulatedText = <<>> /\ emitted = <<>>
  /\ closeCount = 0 /\ streamState = "none"
  /\ readerObtained = FALSE /\ releaseCount = 0
  /\ response = NoResponse
  /\ errorMessage = <<>> /\ result = NoResult

\* the locals of the running reduction, as one record
Reduction ==
  [activeToolCalls |-> activeToolCalls,
   buffer |-> buffer,
   decoderPending |-> decoderPending,
   text |-> text,
   toolCallsCollected |-> toolCallsCollected,
   finishReason |-> finishReason,
   usage |-> usage,
   warnings |-> warnings,
   accumulatedText |-> accumulatedText,
   emitted |-> emitted,
   closeCount |-> closeCount,
   returned |-> FALSE]

Statuses == {401, 429, 500}

StatusText(status) ==
  CASE status = 401 -> "Unauthorized"
    [] status = 429 -> "Too Many Requests"
    [] status = 500 -> "Internal Server Error"

\* what response.text() gives for an error body: a text, or "throws"
ErrorBodies == {"invalid token", "", "throws"}

\* NotOkMessage with the body-read failure taking the place of the error
NotOkMessageBodyFailureWins(status, statusText, errorText) ==
  IF errorText = "throws" THEN <<"body read failed">>
  ELSE <<"ChatGPT OAuth API error: ", ToString(status), " ", statusText>> \o
       (IF errorText # "" THEN <<" - ", errorText>> ELSE <<>>)

\* the message built for a response that is not ok, as its fragments
NotOkMessage(status, statusText, errorText) ==
  <<"ChatGPT OAuth API error: ", ToString(status), " ", statusText>> \o
  (IF errorText # "throws" /\ errorText # "" THEN <<" - ", errorText>> ELSE <<>>)

\* fetch itself rejects: no connection, or the abort signal fired before
\* the response headers arrived
FetchRejects ==
  /\ pc = "fetch"
  /\ pc' = "rejected"
  /\ errorMessage' = <<"fetch failed">>
  /\ response' = response
  /\ UNCHANGED <<path, mode, toolMapping, body, pos, activeToolCalls, buffer,
                 decoderPending, text, toolCallsCollected, finishReason, usage,
                 warnings, accumulatedText, emitted, closeCount, streamState,
                 readerObtained, releaseCount, result>>
  /\ UNCHANGED <<toolVars, reasoningVars, messageVars, finishVars, streamVars, requestVars, authVars, argsVars>>

\* if (!response.ok) { ... throw new Error(errorMessage) }
FetchNotOk ==
  /\ pc = "fetch"
  /\ \E status \in Statuses, errorText \in ErrorBodies :
       /\ response' = [status |-> status, statusText |-> StatusText(status),
                       errorText |-> errorText]
       /\ errorMessage' = NotOkMessage(status, StatusText(status), errorText)
  /\ pc' = "rejected"
  /\ UNCHANGED <<path, mode, toolMapping, body, pos, activeToolCalls, buffer,
                 decoderPending, text, toolCallsCollected, finishReason, usage,
                 warnings, accumulatedText, emitted, closeCount, streamState,
                 readerObtained, releaseCount, result>>
  /\ UNCHANGED <<toolVars, reasoningVars, messageVars, finishVars, streamVars, requestVars, authVars, argsVars>>

\* const reader = response.body?.getReader(); if (!reader) throw ...
FetchNoBody ==
  /\ pc = "fetch"
  /\ pc' = "rejected"
  /\ errorMessage' = <<"No response body">>
  /\ response' = [status |-> 200, statusText |-> "OK", errorText |-> ""]
  /\ UNCHANGED <<path, mode, toolMapping, body, pos, activeToolCalls, buffer,
                 decoderPending, text, toolCallsCollected, finishReason, usage,
                 warnings, accumulatedText, emitted, closeCount, streamState,
                 readerObtained, releaseCount, result>>
  /\ UNCHANGED <<toolVars, reasoningVars, messageVars, finishVars, streamVars, requestVars, authVars, argsVars>>

\* the response is ok and has a body: the reader is obtained and, in
\* doStream, the caller-facing stream is created
FetchOk ==
  /\ pc = "fetch"
  /\ body' \in Bodies(mode)
  /\ response' = [status |-> 200, statusText |-> "OK", errorText |-> ""]
  /\ readerObtained' = TRUE
  /\ streamState' = IF path = "stream" THEN "readable" ELSE "none"
  /\ pc' = "reading"
  /\ UNCHANGED <<path, mode, toolMapping, pos, activeToolCalls, buffer,
                 decoderPending, text, toolCallsCollected, finishReason, usage,
                 warnings, accumulatedText, emitted, closeCount,
                 releaseCount, errorMessage, result>>
  /\ UNCHANGED <<toolVars, reasoningVars, messageVars, finishVars, streamVars, requestVars, authVars, argsVars>>

\* the object-json overlay of doGenerate on the accumulated text
ExtractJSON(t) ==
  LET firstBrace == IndexOf(t, "{")
      lastBrace == LastIndexOf(t, "}")
      extracted == SubSeq(t, firstBrace, lastBrace)
  IN IF firstBrace # 0 /\ lastBrace # 0 /\ IsJSON(extracted) THEN extracted ELSE t

\* what doGenerate returns for the final state s of the reduction
GenerateResult(s, m) ==
  [text |-> IF m = "object-json" /\ s.text # <<>> THEN ExtractJSON(s.text) ELSE s.text,
   toolCalls |-> s.toolCallsCollected,
   finishReason |-> s.finishReason,
   usage |-> s.usage,
   warnings |-> s.warnings]

\* reader.read() gives the next k bytes of the body; the lines they
\* complete are handled.  In doStream the sentinel ends start(): the
\* stream was closed, and the finally block releases the reader.
ReadChunk ==
  /\ pc = "reading"
  /\ pos < Len(body)
  /\ \E k \in 1..(Len(body) - pos), now \in FallbackIds :
       \E s \in {OnChunk(Reduction, path, SubSeq(body, pos + 1, pos + k),
                         toolMapping, mode, now)} :
          /\ pos' = pos + k
          /\ activeToolCalls' = s.activeToolCalls
          /\ buffer' = s.buffer
          /\ decoderPending' = s.decoderPending
          /\ text' = s.text
          /\ toolCallsCollected' = s.toolCallsCollected
          /\ finishReason' = s.finishReason
          /\ usage' = s.usage
          /\ warnings' = s.warnings
          /\ accumulatedText' = s.accumulatedText
          /\ emitted' = s.emitted
          /\ closeCount' = s.closeCount
          /\ streamState' = IF s.returned THEN "closed" ELSE streamState
          /\ releaseCount' = IF s.returned THEN releaseCount + 1 ELSE releaseCount
          /\ pc' = IF s.returned THEN "ended" ELSE "reading"
  /\ UNCHANGED <<path, mode, toolMapping, body, readerObtained, response,
                 errorMessage, result>>
  /\ UNCHANGED <<toolVars, reasoningVars, messageVars, finishVars, streamVars, requestVars, authVars, argsVars>>

\* reader.read() reports done: the loop is left, the finally block
\* releases the reader, and doGenerate returns its result
ReadDone ==
  /\ pc = "reading"
  /\ pos = Len(body)
  /\ releaseCount' = releaseCount + 1
  /\ result' = IF path = "generate" THEN GenerateResult(Reduction, mode) ELSE result
  /\ pc' = "ended"
  /\ UNCHANGED <<path, mode, toolMapping, body, pos, activeToolCalls, buffer,
                 decoderPending, text, toolCallsCollected, finishReason, usage,
                 warnings, accumulatedText, emitted, closeCount, streamState,
                 readerObtained, response, errorMessage>>
  /\ UNCHANGED <<toolVars, reasoningVars, messageVars, finishVars, streamVars, requestVars, authVars, argsVars>>

\* ReadError with doStream's catch but without its finally block
ReadErrorNoRelease ==
  /\ pc = "reading"
  /\ releaseCount' = IF path = "stream" THEN releaseCount ELSE releaseCount + 1
  /\ errorMessage' = <<"read failed">>
  /\ streamState' = IF path = "stream" THEN "errored" ELSE streamState
  /\ pc' = IF path = "stream" THEN "errored" ELSE "rejected"
  /\ UNCHANGED <<path, mode, toolMapping, body, pos, activeToolCalls, buffer,
                 decoderPending, text, toolCallsCollected, finishReason, usage,
                 warnings, accumulatedText, emitted, closeCount,
                 readerObtained, response, result>>
  /\ UNCHANGED <<toolVars, reasoningVars, messageVars, finishVars, streamVars, requestVars, authVars, argsVars>>

\* reader.read() rejects (connection lost, or the abort signal fired while
\* the body was streaming): doGenerate rejects through its finally block,
\* doStream errors the caller-facing stream and then releases the reader
ReadError ==
  /\ pc = "reading"
  /\ releaseCount' = releaseCount + 1
  /\ errorMessage' = <<"read failed">>
  /\ streamState' = IF path = "stream" THEN "errored" ELSE streamState
  /\ pc' = IF path = "stream" THEN "errored" ELSE "rejected"
  /\ UNCHANGED <<path, mode, toolMapping, body, pos, activeToolCalls, buffer,
                 decoderPending, text, toolCallsCollected, finishReason, usage,
                 warnings, accumulatedText, emitted, closeCount,
                 readerObtained, response, result>>
  /\ UNCHANGED <<toolVars, reasoningVars, messageVars, finishVars, streamVars, requestVars, authVars, argsVars>>

CallNext ==
  \/ FetchRejects
  \/ FetchNotOk
  \/ FetchNoBody
  \/ FetchOk
  \/ ReadChunk
  \/ ReadDone
  \/ ReadError

Init == CallInit /\ ToolsIdle /\ ReasoningIdle /\ MessagesIdle /\ FinishIdle /\ StreamIdle /\ RequestIdle /\ AuthIdle /\ ArgsIdle

Next == CallNext

Spec == Init /\ [][Next]_vars

(***************************************************************************)
(* One call of prepareChatGPTTools, and the names under which tool calls   *)
(* of the backend are then reported.                                       *)
(***************************************************************************)
MaxReports == 1

ToolDecls ==
  {[type |-> "function", name |-> n] :
     n \in {NameBash, NameExecute, NameMyPlan, NameTodoWrite, NameGetWeather,
            NameExecutePlan}}
  \cup {[type |-> "provider-defined", name |-> NameBash]}

ToolChoices == {"undefined", "auto", "none", "required", "tool"}

\* the names the backend gives its tool calls
BackendNames == {NameShell, NameUpdatePlan, NameGetWeather}

ToolsInit ==
  /\ callerTools \in SeqsUpTo(ToolDecls, MaxTools)
  /\ callerToolChoice \in ToolChoices
  /\ prepared = prepareChatGPTTools(<<>>, "undefined")
  /\ reportedCalls = <<>>
  /\ toolsPc = "input"

PrepareTools ==
  /\ toolsPc = "input"
  /\ prepared' = prepareChatGPTTools(callerTools, callerToolChoice)
  /\ toolsPc' = "prepared"
  /\ UNCHANGED <<callerTools, callerToolChoice, reportedCalls>>
  /\ UNCHANGED <<callVars, reasoningVars, messageVars, finishVars, streamVars, requestVars, authVars, argsVars>>

\* a closed function call of the backend is reported to the caller under
\* toolMapping.get(name) || name
ReportToolCall ==
  /\ toolsPc = "prepared"
  /\ Len(reportedCalls) < MaxReports
  /\ \E name \in BackendNames :
       reportedCalls' =
         Append(reportedCalls,
                [backendName |-> name,
                 toolName |-> OriginalName(prepared.toolMapping, name)])
  /\ UNCHANGED <<callerTools, callerToolChoice, prepared, toolsPc>>
  /\ UNCHANGED <<callVars, reasoningVars, messageVars, finishVars, streamVars, requestVars, authVars, argsVars>>

ToolsNext == PrepareTools \/ ReportToolCall

InitTools == ToolsInit /\ CallIdle /\ ReasoningIdle /\ MessagesIdle /\ FinishIdle /\ StreamIdle /\ RequestIdle /\ AuthIdle /\ ArgsIdle

SpecTools == InitTools /\ [][ToolsNext]_vars

(***************************************************************************)
(* One model obtained from the provider, and the reasoning part of the     *)
(* request getArgs assembles for it.                                       *)
(***************************************************************************)
Efforts == {"undefined", "null", "low", "medium", "high"}

Summaries == {"undefined", "null", "auto", "none", "concise", "detailed"}

OptionSets == [reasoningEffort : Efforts, reasoningSummary : Summaries]

ReasoningInit ==
  /\ modelId \in ModelIds
  /\ providerOptions \in OptionSets
  /\ modelOptions \in OptionSets
  /\ config = NoOptions
  /\ reasoning = ReasoningNull
  /\ include = <<>>
  /\ argWarnings = <<>>
  /\ reasoningPc = "new"
  /\ instructionFiles \in SUBSET InstructionFileNames
  /\ instructions = <<>>

\* provider(modelId, modelOptions)
CreateModel ==
  /\ reasoningPc = "new"
  /\ config' = createModelConfig(providerOptions, modelOptions)
  /\ reasoningPc' = "constructed"
  /\ UNCHANGED <<modelId, providerOptions, modelOptions, reasoning, include, argWarnings>>
  /\ UNCHANGED <<instructionFiles, instructions>>
  /\ UNCHANGED <<callVars, toolVars, messageVars, finishVars, streamVars, requestVars, authVars, argsVars>>

\* getArgs: const reasoning = this.createReasoningParam(); include; warnings
GetArgs ==
  /\ reasoningPc = "constructed"
  /\ \E r \in {createReasoningParam(modelId, config)} :
       /\ reasoning' = r
       /\ include' = IncludeOf(r)
       /\ argWarnings' = ReasoningWarnings(r)
  /\ instructions' = getInstructions(modelId, instructionFiles)
  /\ reasoningPc' = "args"
  /\ UNCHANGED <<modelId, providerOptions, modelOptions, config, instructionFiles>>
  /\ UNCHANGED <<callVars, toolVars, messageVars, finishVars, streamVars, requestVars, authVars, argsVars>>

ReasoningNext == CreateModel \/ GetArgs

InitReasoning == ReasoningInit /\ CallIdle /\ ToolsIdle /\ MessagesIdle /\ FinishIdle /\ StreamIdle /\ RequestIdle /\ AuthIdle /\ ArgsIdle

SpecReasoning == InitReasoning /\ [][ReasoningNext]_vars

(***************************************************************************)
(* One call of convertToChatGPTMessages (specification SpecMessages).      *)
(***************************************************************************)
MaxMessages == 3

TextPart(str) == [BlankPart EXCEPT !.type = "text", !.text = str]

ImagePart == [BlankPart EXCEPT !.type = "image",
                !.image = [kind |-> "string", value |-> "https://x/cat.png"]]

MediaTypePng == <<"i", "m", "a", "g", "e", "/", "p", "n", "g">>

FilePart == [BlankPart EXCEPT !.type = "file", !.mediaType = MediaTypePng,
               !.data = [kind |-> "string", value |-> "QUJD"]]

AudioPart == [BlankPart EXCEPT !.type = "audio"]

ToolCallPart == [BlankPart EXCEPT !.type = "tool-call", !.toolCallId = "call_1",
                   !.toolName = NameBash, !.input = "cmd"]

NoOutput == [kind |-> "undefined", text |-> "", value |-> "undefined"]

TextOutput == [kind |-> "text", text |-> "done", value |-> "undefined"]

BlankMessage ==
  [role |-> "", isString |-> FALSE, text |-> "", parts |-> <<>>, responses |-> <<>>]

MsgSystem == [BlankMessage EXCEPT !.role = "system", !.isString = TRUE, !.text = "Be terse"]

MsgUserHi == [BlankMessage EXCEPT !.role = "user", !.parts = <<TextPart("hi")>>]

MsgUserString == [BlankMessage EXCEPT !.role = "user", !.isString = TRUE, !.text = "hi"]

MsgUserMixed ==
  [BlankMessage EXCEPT !.role = "user",
                       !.parts = <<TextPart("look"), ImagePart, AudioPart>>]

MsgUserFile == [BlankMessage EXCEPT !.role = "user", !.parts = <<FilePart>>]

MsgAssistant ==
  [BlankMessage EXCEPT !.role = "assistant", !.parts = <<TextPart("ok"), ToolCallPart>>]

MsgTool ==
  [BlankMessage EXCEPT !.role = "tool",
     !.responses = <<[toolCallId |-> "call_1", result |-> NoOutput, output |-> TextOutput]>>]

\* a tool result in the shape of the v1 prompt: result, no output
MsgToolResult ==
  [BlankMessage EXCEPT !.role = "tool",
     !.responses = <<[toolCallId |-> "call_1", result |-> TextOutput, output |-> NoOutput]>>]

MsgDeveloper == [BlankMessage EXCEPT !.role = "developer", !.isString = TRUE, !.text = "x"]

\* content that is a string is of the v1 prompt only
PromptMessages(variant) ==
  {MsgSystem, MsgUserHi, MsgUserMixed, MsgUserFile, MsgAssistant, MsgTool,
   MsgToolResult, MsgDeveloper}
  \cup (IF variant = "v1" THEN {MsgUserString} ELSE {})

SystemMessageModes == {"undefined", "user", "system"}

MessagesInit ==
  /\ translatorVariant \in {"v1", "v2"}
  /\ systemMessageMode \in SystemMessageModes
  /\ prompt \in SeqsUpTo(PromptMessages(translatorVariant), MaxMessages)
  /\ chatgptMessages = <<>>
  /\ messageWarnings = <<>>
  /\ translatorPc = "input"

Convert ==
  /\ translatorPc = "input"
  /\ \E out \in {convertToChatGPTMessages(translatorVariant, prompt, systemMessageMode)} :
       IF out.threw
       THEN /\ translatorPc' = "threw"
            /\ UNCHANGED <<chatgptMessages, messageWarnings>>
       ELSE /\ translatorPc' = "converted"
            /\ chatgptMessages' = out.messages
            /\ messageWarnings' = out.warnings
  /\ UNCHANGED <<translatorVariant, systemMessageMode, prompt>>
  /\ UNCHANGED <<callVars, toolVars, reasoningVars, finishVars, streamVars, requestVars, authVars, argsVars>>

MessagesNext == Convert

InitMessages == MessagesInit /\ CallIdle /\ ToolsIdle /\ ReasoningIdle /\ FinishIdle /\ StreamIdle /\ RequestIdle /\ AuthIdle /\ ArgsIdle

SpecMessages == InitMessages /\ [][MessagesNext]_vars

(***************************************************************************)
(* Calls of mapChatGPTFinishReason.                                        *)
(***************************************************************************)
MaxLookups == 2

\* the statuses a backend reports, a status the table does not know, the
\* empty string, and null and undefined
BackendStatuses ==
  {"stop", "completed", "length", "max_tokens", "tool_calls", "function_call",
   "content_filter", "cancelled", "", "null", "undefined"}

mapFinishReason(variant, status) ==
  IF variant = "v1" THEN mapChatGPTFinishReason(status)
  ELSE mapChatGPTFinishReasonV2(status)

FinishInit == finishVariant \in {"v1", "v2"} /\ lookups = <<>>

MapFinishReason ==
  /\ Len(lookups) < MaxLookups
  /\ \E status \in BackendStatuses :
       lookups' = Append(lookups, [status |-> status,
                                   mapped |-> mapFinishReason(finishVariant, status)])
  /\ UNCHANGED finishVariant
  /\ UNCHANGED <<callVars, toolVars, reasoningVars, messageVars, streamVars, requestVars, authVars, argsVars>>

FinishNext == MapFinishReason

InitFinish == FinishInit /\ CallIdle /\ ToolsIdle /\ ReasoningIdle /\ MessagesIdle /\ StreamIdle /\ RequestIdle /\ AuthIdle /\ ArgsIdle

SpecFinish == InitFinish /\ [][FinishNext]_vars

(***************************************************************************)
(* The stream doStream returns: the start callback of its underlying       *)
(* source reads the response body, and the caller reads the stream.        *)
(***************************************************************************)
MaxChunks == 3

\* what one read of the body gives: one frame, or two frames at once
Chunks ==
  {BodyOf(<<LineText>>), BodyOf(<<LineText, LineText>>), BodyOf(<<LineCompleted>>),
   BodyOf(<<LineSentinel>>)}

StreamInit ==
  /\ netChunks \in SeqsUpTo(Chunks, MaxChunks) \ {<<>>}
  /\ netReads = 0
  /\ sourceState = InitialReduction
  /\ taken = 0
  /\ sourcePc = "reading"

\* start(controller): const { done, value } = await reader.read(), and the
\* handling of the chunk, which enqueues the parts of its frames
SourceRead ==
  /\ sourcePc = "reading"
  /\ netReads < Len(netChunks)
  /\ \E now \in FallbackIds :
       \E s \in {OnChunk(sourceState, "stream", netChunks[netReads + 1],
                         EmptyMap, "regular", now)} :
         /\ sourceState' = s
         /\ sourcePc' = IF s.returned THEN "closed" ELSE "reading"
  /\ netReads' = netReads + 1
  /\ UNCHANGED <<netChunks, taken>>
  /\ UNCHANGED <<callVars, toolVars, reasoningVars, messageVars, finishVars, requestVars, authVars, argsVars>>

\* start(controller): reader.read() reports done and the loop is left
SourceDone ==
  /\ sourcePc = "reading"
  /\ netReads = Len(netChunks)
  /\ sourcePc' = "ended"
  /\ UNCHANGED <<netChunks, netReads, sourceState, taken>>
  /\ UNCHANGED <<callVars, toolVars, reasoningVars, messageVars, finishVars, requestVars, authVars, argsVars>>

\* the caller reads the next part from the stream it was given
CallerRead ==
  /\ taken < Len(sourceState.emitted)
  /\ taken' = taken + 1
  /\ UNCHANGED <<netChunks, netReads, sourceState, sourcePc>>
  /\ UNCHANGED <<callVars, toolVars, reasoningVars, messageVars, finishVars, requestVars, authVars, argsVars>>

StreamNext == SourceRead \/ SourceDone \/ CallerRead

InitStream == StreamInit /\ CallIdle /\ ToolsIdle /\ ReasoningIdle /\ MessagesIdle /\ FinishIdle /\ RequestIdle /\ AuthIdle /\ ArgsIdle

SpecStream == InitStream /\ [][StreamNext]_vars

(***************************************************************************)
(* One call of doGenerate or doStream, up to the response of the backend:  *)
(* getArgs, getAuthHeaders, fetch and the check of the status.             *)
(***************************************************************************)
\* what the credential source resolves with
ResolvedCredentials ==
  {[accessToken |-> "token-1", accountId |-> "acct-1"],
   [accessToken |-> "token-2", accountId |-> "acct-2"]}

\* { ...a, ...b }
Spread(a, b) ==
  [k \in (DOMAIN a) \cup (DOMAIN b) |-> IF k \in DOMAIN b THEN b[k] ELSE a[k]]

\* the headers getAuthHeaders builds from the credentials
AuthHeaders(credentials) ==
  [k \in {"Authorization", "chatgpt-account-id", "OpenAI-Beta", "originator"} |->
     CASE k = "Authorization" -> <<"Bearer ", credentials.accessToken>>
       [] k = "chatgpt-account-id" -> <<credentials.accountId>>
       [] k = "OpenAI-Beta" -> <<"responses=experimental">>
       [] k = "originator" -> <<"codex_cli_rs">>]

ContentHeaders ==
  [k \in {"Content-Type", "Accept"} |->
     IF k = "Content-Type" THEN <<"application/json">> ELSE <<"text/event-stream">>]

\* the headers of the request: the fixed ones, config.headers (none here),
\* the authentication headers, and options.headers last
RequestHeaders(authentication, optionHeaders) ==
  Spread(Spread(ContentHeaders, authentication), optionHeaders)

\* options.headers of the caller: none, or a tracing header
CallerHeaders == {EmptyMap, [k \in {"x-trace"} |-> <<"t1">>]}

RequestInit ==
  /\ requestPath \in {"generate", "stream"}
  /\ configFetch \in {"undefined", "custom"}
  /\ callHeaders \in CallerHeaders
  /\ requestPc = "start"
  /\ requestArgs = ""
  /\ credentialCalls = 0
  /\ credentialsAtArgs = 0
  /\ authHeaders = EmptyMap
  /\ requests = <<>>
  /\ requestResponse = NoResponse
  /\ requestError = <<>>

\* const { args, warnings, toolMapping, mode } = await this.getArgs(options)
AwaitGetArgs ==
  /\ requestPc = "start"
  /\ requestArgs' = "args"
  /\ credentialsAtArgs' = credentialCalls
  /\ requestPc' = "args"
  /\ UNCHANGED <<requestPath, configFetch, callHeaders, credentialCalls,
                 authHeaders, requests, requestResponse, requestError>>
  /\ UNCHANGED <<callVars, toolVars, reasoningVars, messageVars, finishVars, streamVars, authVars, argsVars>>

\* AwaitGetAuthHeaders with getCredentials invoked a second time
AwaitGetAuthHeadersTwice ==
  /\ requestPc = "args"
  /\ credentialCalls' = credentialCalls + 2
  /\ \/ \E credentials \in ResolvedCredentials :
          /\ authHeaders' = AuthHeaders(credentials)
          /\ requestPc' = "headers"
          /\ requestError' = requestError
     \/ /\ authHeaders' = authHeaders
        /\ requestPc' = "rejected"
        /\ requestError' = <<"No ChatGPT OAuth credentials found">>
  /\ UNCHANGED <<requestPath, configFetch, callHeaders, requestArgs,
                 credentialsAtArgs, requests, requestResponse>>
  /\ UNCHANGED <<callVars, toolVars, reasoningVars, messageVars, finishVars, streamVars, authVars, argsVars>>

\* const authHeaders = await this.getAuthHeaders(): getCredentials is
\* invoked, and resolves with credentials or rejects
AwaitGetAuthHeaders ==
  /\ requestPc = "args"
  /\ credentialCalls' = credentialCalls + 1
  /\ \/ \E credentials \in ResolvedCredentials :
          /\ authHeaders' = AuthHeaders(credentials)
          /\ requestPc' = "headers"
          /\ requestError' = requestError
     \/ /\ authHeaders' = authHeaders
        /\ requestPc' = "rejected"
        /\ requestError' = <<"No ChatGPT OAuth credentials found">>
  /\ UNCHANGED <<requestPath, configFetch, callHeaders, requestArgs,
                 credentialsAtArgs, requests, requestResponse>>
  /\ UNCHANGED <<callVars, toolVars, reasoningVars, messageVars, finishVars, streamVars, authVars, argsVars>>

\* fetch(`${this.config.baseURL}/codex/responses`, { method: 'POST', ... }):
\* the function called is the global fetch
CallFetch ==
  /\ requestPc = "headers"
  /\ requests' = Append(requests,
                        [via |-> "global",
                         method |-> "POST",
                         path |-> "/codex/responses",
                         headers |-> RequestHeaders(authHeaders, callHeaders),
                         body |-> requestArgs])
  /\ requestPc' = "awaiting"
  /\ UNCHANGED <<requestPath, configFetch, callHeaders, requestArgs,
                 credentialCalls, credentialsAtArgs, authHeaders,
                 requestResponse, requestError>>
  /\ UNCHANGED <<callVars, toolVars, reasoningVars, messageVars, finishVars, streamVars, authVars, argsVars>>

\* the promise of fetch rejects: no connection, or the request was aborted
FetchFails ==
  /\ requestPc = "awaiting"
  /\ requestPc' = "rejected"
  /\ requestError' = <<"fetch failed">>
  /\ UNCHANGED <<requestPath, configFetch, callHeaders, requestArgs,
                 credentialCalls, credentialsAtArgs, authHeaders, requests,
                 requestResponse>>
  /\ UNCHANGED <<callVars, toolVars, reasoningVars, messageVars, finishVars, streamVars, authVars, argsVars>>

\* ResponseNotOk with a second attempt when the backend limits the rate
ResponseNotOkRetryOnRateLimit ==
  /\ requestPc = "awaiting"
  /\ \E status \in Statuses, errorText \in ErrorBodies :
       /\ requestResponse' = [status |-> status, statusText |-> StatusText(status),
                              errorText |-> errorText]
       /\ IF status = 429 /\ Len(requests) < 2
          THEN requestPc' = "headers" /\ requestError' = requestError
          ELSE /\ requestPc' = "rejected"
               /\ requestError' = NotOkMessage(status, StatusText(status), errorText)
  /\ UNCHANGED <<requestPath, configFetch, callHeaders, requestArgs,
                 credentialCalls, credentialsAtArgs, authHeaders, requests>>
  /\ UNCHANGED <<callVars, toolVars, reasoningVars, messageVars, finishVars, streamVars, authVars, argsVars>>

\* if (!response.ok) { ... throw new Error(errorMessage) }
ResponseNotOk ==
  /\ requestPc = "awaiting"
  /\ \E status \in Statuses, errorText \in ErrorBodies :
       /\ requestResponse' = [status |-> status, statusText |-> StatusText(status),
                              errorText |-> errorText]
       /\ requestPc' = "rejected"
       /\ requestError' = NotOkMessage(status, StatusText(status), errorText)
  /\ UNCHANGED <<requestPath, configFetch, callHeaders, requestArgs,
                 credentialCalls, credentialsAtArgs, authHeaders, requests>>
  /\ UNCHANGED <<callVars, toolVars, reasoningVars, messageVars, finishVars, streamVars, authVars, argsVars>>

\* the response is ok: without a body the call rejects, with one the
\* reduction of the body starts
ResponseOk ==
  /\ requestPc = "awaiting"
  /\ requestResponse' = [status |-> 200, statusText |-> "OK", errorText |-> ""]
  /\ \/ requestPc' = "reading" /\ requestError' = requestError
     \/ requestPc' = "rejected" /\ requestError' = <<"No response body">>
  /\ UNCHANGED <<requestPath, configFetch, callHeaders, requestArgs,
                 credentialCalls, credentialsAtArgs, authHeaders, requests>>
  /\ UNCHANGED <<callVars, toolVars, reasoningVars, messageVars, finishVars, streamVars, authVars, argsVars>>

RequestNext ==
  \/ AwaitGetArgs
  \/ AwaitGetAuthHeaders
  \/ CallFetch
  \/ FetchFails
  \/ ResponseNotOk
  \/ ResponseOk

InitRequest == RequestInit /\ CallIdle /\ ToolsIdle /\ ReasoningIdle /\ MessagesIdle /\ FinishIdle /\ StreamIdle /\ AuthIdle /\ ArgsIdle

SpecRequest == InitRequest /\ [][RequestNext]_vars

(***************************************************************************)
(* One provider made by createChatGPTOAuth, and getCredentials invocations *)
(* on its credential source: the custom provider when one was given, a     *)
(* DefaultAuthProvider otherwise.                                          *)
(***************************************************************************)
MaxInvocations == 2

StartTimes == {1000000}

\* expires_in of the token endpoint, in milliseconds
TokenLifetimes == {3600000}

CustomAuthPath == "/srv/auth.json"

\* credentials given directly: with and without a refresh token, without an
\* expiry, expiring within the window, and expiring exactly at its end
DirectCredentials(now) ==
  {[accessToken |-> "direct-access-token", accountId |-> "direct-account",
    refreshToken |-> rt, expiresAt |-> expiry] :
     rt \in {"", "direct-refresh-token"},
     expiry \in {0, now + RefreshWindow - 1, now + RefreshWindow}}

\* what the getCredentials of the custom provider resolves with
CustomProviderCredentials ==
  [accessToken |-> "provider-access-token", accountId |-> "provider-account",
   refreshToken |-> "", expiresAt |-> 0]

EnvSet ==
  [CHATGPT_OAUTH_ACCESS_TOKEN |-> "env-access-token",
   CHATGPT_OAUTH_ACCOUNT_ID |-> "env-account",
   CHATGPT_OAUTH_REFRESH_TOKEN |-> ""]

\* the default file was last refreshed more than 28 days ago, the file at
\* the custom path recently
FileCredentials(filePath, now) ==
  IF filePath = DefaultAuthPath
  THEN [accessToken |-> "file-access-token", accountId |-> "file-account",
        refreshToken |-> "file-refresh-token", expiresAt |-> now - 1]
  ELSE [accessToken |-> "custom-file-access-token", accountId |-> "custom-file-account",
        refreshToken |-> "custom-file-refresh-token", expiresAt |-> now + RefreshWindow]

FileSystems(now) ==
  {[filePath \in paths |-> FileCredentials(filePath, now)] :
     paths \in SUBSET {DefaultAuthPath, CustomAuthPath}}

IdleInvocation ==
  [pc |-> "idle", loaded |-> Loaded(NoCredentials), seen |-> NoCredentials,
   awaits |-> 0, result |-> NoCredentials, error |-> <<>>]

\* createChatGPTOAuth(options): authProvider = options.authProvider ??
\* new DefaultAuthProvider({ credentials, credentialsPath, autoRefresh }),
\* whose constructor sets this.credentials = options.credentials
AuthInit ==
  /\ clock \in StartTimes
  /\ settings \in [credentials : {NoCredentials} \cup DirectCredentials(clock),
                   credentialsPath : {"", CustomAuthPath},
                   authProvider : {"undefined", "custom"},
                   autoRefresh : {"undefined", "true", "false"}]
  /\ processEnv \in {NoEnv, EnvSet}
  /\ authFiles \in FileSystems(clock)
  /\ heldCredentials =
       IF settings.authProvider = "custom" THEN NoCredentials ELSE settings.credentials
  /\ refreshPromise = 0
  /\ promises = <<>>
  /\ refreshRequests = <<>>
  /\ invocations = [i \in 1..MaxInvocations |-> IdleInvocation]

\* AfterCredentialsSet without the test of this.refreshPromise: every
\* invocation that finds the token in need of a refresh starts its own
AfterCredentialsSetOwnRefresh(i, held) ==
  IF settings.autoRefresh # "false" /\ shouldRefresh(held, clock)
  THEN /\ promises' = Append(promises, refreshToken(held))
       /\ refreshPromise' = Len(promises) + 1
       /\ refreshRequests' =
            IF refreshToken(held).state = "pending"
            THEN Append(refreshRequests,
                        [grant_type |-> "refresh_token",
                         refresh_token |-> held.refreshToken])
            ELSE refreshRequests
       /\ invocations' = [invocations EXCEPT
                            ![i] = [@ EXCEPT !.pc = "refreshing", !.seen = held,
                                             !.awaits = Len(promises) + 1]]
  ELSE /\ UNCHANGED <<promises, refreshPromise, refreshRequests>>
       /\ invocations' = [invocations EXCEPT
                            ![i] = [@ EXCEPT !.pc = "returned", !.seen = held,
                                             !.result = held]]

\* getCredentials of DefaultAuthProvider from the point where
\* this.credentials is set to held, up to its next await or its return
AfterCredentialsSet(i, held) ==
  IF settings.autoRefresh # "false" /\ shouldRefresh(held, clock)
  THEN IF refreshPromise = 0
       THEN /\ promises' = Append(promises, refreshToken(held))
            /\ refreshPromise' = Len(promises) + 1
            /\ refreshRequests' =
                 IF refreshToken(held).state = "pending"
                 THEN Append(refreshRequests,
                             [grant_type |-> "refresh_token",
                              refresh_token |-> held.refreshToken])
                 ELSE refreshRequests
            /\ invocations' = [invocations EXCEPT
                                 ![i] = [@ EXCEPT !.pc = "refreshing", !.seen = held,
                                                  !.awaits = Len(promises) + 1]]
       ELSE /\ UNCHANGED <<promises, refreshPromise, refreshRequests>>
            /\ invocations' = [invocations EXCEPT
                                 ![i] = [@ EXCEPT !.pc = "refreshing", !.seen = held,
                                                  !.awaits = refreshPromise]]
  ELSE /\ UNCHANGED <<promises, refreshPromise, refreshRequests>>
       /\ invocations' = [invocations EXCEPT
                            ![i] = [@ EXCEPT !.pc = "returned", !.seen = held,
                                             !.result = held]]

\* getCredentials() of the custom provider resolves with its credentials
InvokeCustom(i) ==
  /\ invocations[i].pc = "idle"
  /\ settings.authProvider = "custom"
  /\ invocations' = [invocations EXCEPT
                       ![i] = [@ EXCEPT !.pc = "returned",
                                        !.result = CustomProviderCredentials]]
  /\ UNCHANGED <<settings, processEnv, authFiles, clock, heldCredentials,
                 refreshPromise, promises, refreshRequests>>
  /\ UNCHANGED <<callVars, toolVars, reasoningVars, messageVars, finishVars, streamVars, requestVars, argsVars>>

\* getCredentials() of DefaultAuthProvider is invoked: without credentials
\* it calls loadCredentials and awaits, with credentials it goes on
InvokeDefault(i) ==
  /\ invocations[i].pc = "idle"
  /\ settings.authProvider = "undefined"
  /\ IF heldCredentials = NoCredentials
     THEN /\ invocations' = [invocations EXCEPT
                               ![i] = [@ EXCEPT !.pc = "loading",
                                                !.loaded = loadCredentials(settings, processEnv, authFiles)]]
          /\ UNCHANGED <<promises, refreshPromise, refreshRequests>>
     ELSE AfterCredentialsSet(i, heldCredentials)
  /\ UNCHANGED <<settings, processEnv, authFiles, clock, heldCredentials>>
  /\ UNCHANGED <<callVars, toolVars, reasoningVars, messageVars, finishVars, streamVars, requestVars, argsVars>>

\* this.credentials = await this.loadCredentials(): the await returns or throws
AfterLoad(i) ==
  /\ invocations[i].pc = "loading"
  /\ IF invocations[i].loaded.ok
     THEN /\ heldCredentials' = invocations[i].loaded.value
          /\ AfterCredentialsSet(i, invocations[i].loaded.value)
     ELSE /\ invocations' = [invocations EXCEPT
                               ![i] = [@ EXCEPT !.pc = "threw",
                                                !.error = invocations[i].loaded.error]]
          /\ UNCHANGED <<heldCredentials, promises, refreshPromise, refreshRequests>>
  /\ UNCHANGED <<settings, processEnv, authFiles, clock>>
  /\ UNCHANGED <<callVars, toolVars, reasoningVars, messageVars, finishVars, streamVars, requestVars, argsVars>>

\* the request of refreshAccessToken is answered: with new tokens, or with
\* a failure (no connection, a status that is not ok).  The answer is a
\* task of the event loop; loadCredentials has no await inside (the file is
\* read with readFileSync), so an invocation that awaits it goes on in a
\* microtask, before any answer of the network is handled.
RefreshSettles ==
  /\ \A i \in 1..MaxInvocations : invocations[i].pc # "loading"
  /\ \E p \in 1..Len(promises) :
       /\ promises[p].state = "pending"
       /\ \/ \E lifetime \in TokenLifetimes :
               promises' = [promises EXCEPT
                              ![p] = [@ EXCEPT
                                        !.state = "fulfilled",
                                        !.value = RefreshedCredentials(promises[p].accountId, clock, lifetime)]]
          \/ promises' = [promises EXCEPT
                            ![p] = [@ EXCEPT
                                      !.state = "rejected",
                                      !.reason = <<"Failed to refresh ChatGPT OAuth token">>]]
  /\ UNCHANGED <<settings, processEnv, authFiles, clock, heldCredentials,
                 refreshPromise, refreshRequests, invocations>>
  /\ UNCHANGED <<callVars, toolVars, reasoningVars, messageVars, finishVars, streamVars, requestVars, argsVars>>

\* this.credentials = await this.refreshPromise; this.refreshPromise =
\* undefined; return this.credentials -- or the await throws
AfterRefresh(i) ==
  /\ invocations[i].pc = "refreshing"
  /\ promises[invocations[i].awaits].state # "pending"
  /\ IF promises[invocations[i].awaits].state = "fulfilled"
     THEN /\ heldCredentials' = promises[invocations[i].awaits].value
          /\ refreshPromise' = 0
          /\ invocations' = [invocations EXCEPT
                               ![i] = [@ EXCEPT !.pc = "returned",
                                                !.result = promises[invocations[i].awaits].value]]
     ELSE /\ invocations' = [invocations EXCEPT
                               ![i] = [@ EXCEPT !.pc = "threw",
                                                !.error = promises[invocations[i].awaits].reason]]
          /\ UNCHANGED <<heldCredentials, refreshPromise>>
  /\ UNCHANGED <<settings, processEnv, authFiles, clock, promises, refreshRequests>>
  /\ UNCHANGED <<callVars, toolVars, reasoningVars, messageVars, finishVars, streamVars, requestVars, argsVars>>

AuthNext ==
  \/ \E i \in 1..MaxInvocations : InvokeCustom(i)
  \/ \E i \in 1..MaxInvocations : InvokeDefault(i)
  \/ \E i \in 1..MaxInvocations : AfterLoad(i)
  \/ RefreshSettles
  \/ \E i \in 1..MaxInvocations : AfterRefresh(i)

InitAuth == AuthInit /\ CallIdle /\ ToolsIdle /\ ReasoningIdle /\ MessagesIdle /\ FinishIdle /\ StreamIdle /\ RequestIdle /\ ArgsIdle

SpecAuth == InitAuth /\ [][AuthNext]_vars

(***************************************************************************)
(* Properties of the call (specification Spec).                            *)
(***************************************************************************)
FinishPositions == {i \in 1..Len(emitted) : emitted[i].type = "finish"}

\* the reduction of the whole body delivered as one chunk
Unsplit(now) == OnChunk(InitialReduction, path, body, toolMapping, mode, now)

\* the handling of the given complete lines from the current state
HandleLines(lines, now) ==
  IF path = "generate"
  THEN GenLines(Reduction, lines, toolMapping, now)
  ELSE StreamLines(Reduction, lines, toolMapping, mode, now)

\* the lines of the body, and the body without its malformed frames
BodyLines == Front(Split(body, NL))

BodyWithoutMalformed == BodyOf(SelectSeq(BodyLines, LAMBDA l : l # LineMalformed))

Contains(message, fragment) == \E i \in 1..Len(message) : message[i] = fragment

\* C1: in doStream, once the call has ended exactly one finish part was
\* emitted, it is the last part, and at no time is there a second finish
\* part or a part after a finish part.
C1_ExactlyOneFinishAndLast ==
  path = "stream" =>
    /\ \A i \in FinishPositions : i = Len(emitted)
    /\ pc = "ended" => Cardinality(FinishPositions) = 1

\* C2: when the body has ended, doStream has emitted and doGenerate has
\* returned exactly what they give for the same bytes in one unsplit chunk.
C2_SameAsUnsplit ==
  pc = "ended" =>
    \A now \in FallbackIds :
      /\ path = "generate" => result = GenerateResult(Unsplit(now), mode)
      /\ path = "stream" =>
           /\ emitted = Unsplit(now).emitted
           /\ closeCount = Unsplit(now).closeCount

\* C3: in doStream, when the body has ended normally (with the sentinel or
\* by the reader reporting done) the caller-facing stream has been closed
\* exactly once.
C3_ClosedOnceWhenBodyEnds ==
  (path = "stream" /\ pc = "ended") => (closeCount = 1 /\ streamState = "closed")

\* C4: the reader is never released twice, not released while the loop is
\* still reading, and released exactly once when the reduction has ended
\* (end of body, sentinel, read error or abort while streaming).
C4_ReaderReleasedExactlyOnce ==
  /\ releaseCount <= 1
  /\ pc = "reading" => releaseCount = 0
  /\ (readerObtained /\ pc \in {"ended", "rejected", "errored"}) => releaseCount = 1

C4_Witness ==
  /\ path = "stream" /\ pc = "errored" /\ readerObtained
  /\ pos > 0 /\ releaseCount = 1

\* C7: after a response that is not ok the call has rejected without
\* obtaining a reader or creating a stream, and the message of its error
\* has the status code, the status text and, when the body was read and is
\* not empty, the body text; when reading the body failed the error is
\* still the one with the status code and status text.
C7_NotOkRejectsWithStatusAndBody ==
  (response.status # 0 /\ response.status \notin 200..299) =>
    /\ pc = "rejected"
    /\ ~readerObtained /\ releaseCount = 0 /\ streamState = "none"
    /\ errorMessage[1] = "ChatGPT OAuth API error: "
    /\ Contains(errorMessage, ToString(response.status))
    /\ Contains(errorMessage, response.statusText)
    /\ response.errorText \notin {"", "throws"} =>
         Contains(errorMessage, response.errorText)

C7_Witness ==
  /\ pc = "rejected" /\ response.status = 401
  /\ response.errorText = "invalid token"
  /\ Contains(errorMessage, "401") /\ Contains(errorMessage, "invalid token")

\* C8: in every state of the read loop, a frame whose payload is not JSON
\* changes nothing, and any line handled after it has the effect it has
\* without it; and when doStream has ended it has emitted what it emits
\* for the body without its malformed frames.
C8_MalformedFrameSkipped ==
  /\ pc = "reading" =>
       \A now \in FallbackIds :
         /\ HandleLines(<<LineMalformed>>, now) = Reduction
         /\ \A line \in TextLines \cup ToolLines :
              HandleLines(<<LineMalformed, line>>, now) = HandleLines(<<line>>, now)
  /\ (path = "stream" /\ pc = "ended") =>
       \A now \in FallbackIds :
         emitted = OnChunk(InitialReduction, path, BodyWithoutMalformed,
                           toolMapping, mode, now).emitted

C8_Witness ==
  /\ pc = "ended"
  /\ BodyLines = <<LineMalformed, LineTextEAcute, LineSentinel>>
  /\ path = "stream" /\ mode = "regular"
  /\ Len(emitted) = 1 /\ emitted[1].textDelta = <<EAcute>>

\* the backend name of a collected call (the inverse of the identity map
\* of the calls of this specification)
BackendNameOf(toolName) ==
  IF toolName = NameBash THEN NameShell
  ELSE IF toolName = NameMyPlan THEN NameUpdatePlan
  ELSE toolName

InvalidCalls ==
  {i \in 1..Len(toolCallsCollected) :
     ~validateToolResponse(BackendNameOf(toolCallsCollected[i].toolName),
                           toolCallsCollected[i].args).ok}

\* the closing events of the model whose call is open and whose final
\* arguments fail validation
FailingCloses ==
  {e \in {PayloadEvents[p] : p \in DOMAIN PayloadEvents} :
     /\ e.type = "response.output_item.done"
     /\ e.itemId \in DOMAIN activeToolCalls
     /\ ~validateToolResponse(e.itemName, FinalArgs(Reduction, e)).ok}

\* C9: in doGenerate, closing a call whose arguments fail validation adds
\* the call with its raw arguments and exactly one warning; the warnings
\* are as many as the collected calls with invalid arguments; and when the
\* body has ended the call has returned them all.
C9_InvalidArgumentsKeptWithWarning ==
  path = "generate" =>
    /\ pc = "reading" =>
         \A e \in FailingCloses, now \in FallbackIds :
           LET after == GenOnEvent(Reduction, e, toolMapping, now) IN
             /\ after.toolCallsCollected =
                  Append(toolCallsCollected,
                         [toolCallType |-> "function", toolCallId |-> e.itemId,
                          toolName |-> OriginalName(toolMapping, e.itemName),
                          args |-> FinalArgs(Reduction, e)])
             /\ Len(after.warnings) = Len(warnings) + 1
             /\ SubSeq(after.warnings, 1, Len(warnings)) = warnings
    /\ Len(warnings) = Cardinality(InvalidCalls)
    /\ pc = "ended" =>
         /\ result.toolCalls = toolCallsCollected
         /\ result.warnings = warnings
    /\ (pc = "rejected" /\ readerObtained) => errorMessage = <<"read failed">>

C9_Witness ==
  /\ path = "generate" /\ pc = "ended"
  /\ Len(result.toolCalls) = 1
  /\ result.toolCalls[1].args = TxtCmdString
  /\ result.toolCalls[1].toolName = NameBash
  /\ Len(result.warnings) = 1

(***************************************************************************)
(* Properties of the Tool Identity Mapper (specification SpecTools).       *)
(***************************************************************************)
\* the canonical name the keyword rules give a caller tool, execution
\* rules first; <<>> when it is given none
FamilyOf(tool) ==
  IF tool.type # "function" THEN <<>>
  ELSE IF IsShellLike(tool.name) THEN NameShell
  ELSE IF IsPlanLike(tool.name) THEN NameUpdatePlan
  ELSE <<>>

MembersOf(canonical) ==
  {i \in 1..Len(callerTools) : FamilyOf(callerTools[i]) = canonical}

LastMemberOf(canonical) ==
  CHOOSE i \in MembersOf(canonical) : \A j \in MembersOf(canonical) : j <= i

C6_AtMostTwoBackendTools ==
  toolsPc = "prepared" =>
    /\ Len(prepared.tools) <= 2
    /\ \A i, j \in 1..Len(prepared.tools) :
         prepared.tools[i].name = prepared.tools[j].name => i = j
    /\ \A i \in 1..Len(prepared.tools) :
         prepared.tools[i].name \in {NameShell, NameUpdatePlan}

C6_Witness ==
  /\ toolsPc = "prepared"
  /\ Len(callerTools) = 3
  /\ Cardinality(MembersOf(NameShell)) = 2
  /\ Cardinality(MembersOf(NameUpdatePlan)) = 1
  /\ Len(prepared.tools) = 2

(***************************************************************************)
(* Properties of the Reasoning Policy (specification SpecReasoning).       *)
(***************************************************************************)
\* the model ids of the model that are gpt-5, gpt-5-codex or
\* codex-mini-latest up to case, or have one of them as a prefix
DocumentedReasoningIds == {IdGpt5, IdGpt5Upper, IdGpt5Codex, IdCodexMini}

InInclude(flag) == \E i \in 1..Len(include) : include[i] = flag

\* C10: for a documented reasoning-capable id with no effort and no summary
\* configured, the request has reasoning {effort: medium, summary: auto}
\* and include has the encrypted-reasoning-content flag.
C10_ReasoningDefault ==
  ( /\ reasoningPc = "args"
    /\ modelId \in DocumentedReasoningIds
    /\ providerOptions = NoOptions
    /\ modelOptions = NoOptions )
  => /\ reasoning = [null |-> FALSE, effort |-> "medium", summary |-> "auto"]
     /\ InInclude(EncryptedContentFlag)

C10_Witness ==
  /\ reasoningPc = "args"
  /\ modelId = IdGpt5Upper
  /\ providerOptions = NoOptions /\ modelOptions = NoOptions
  /\ reasoning.effort = "medium" /\ reasoning.summary = "auto"
  /\ include = <<EncryptedContentFlag>>

\* C11: for a reasoning-capable id whose configured effort is null, the
\* request has reasoning null and include has no encrypted-reasoning-content
\* flag, whatever the configured summary.
C11_NullEffortDisablesReasoning ==
  ( /\ reasoningPc = "args"
    /\ supportsReasoning(modelId)
    /\ config.reasoningEffort = "null" )
  => /\ reasoning = ReasoningNull
     /\ ~InInclude(EncryptedContentFlag)
     /\ argWarnings = <<>>

C11_Witness ==
  /\ reasoningPc = "args"
  /\ modelId = IdGpt5
  /\ config = [reasoningEffort |-> "null", reasoningSummary |-> "detailed"]
  /\ reasoning.null /\ include = <<>>

\* C12: a model created with the per-model option reasoningEffort null has
\* reasoning null in its requests, whatever the provider's reasoningEffort.
C12_PerModelNullDisablesReasoning ==
  ( /\ reasoningPc = "args"
    /\ modelId \in DocumentedReasoningIds
    /\ modelOptions.reasoningEffort = "null" )
  => /\ reasoning.null
     /\ ~InInclude(EncryptedContentFlag)

\* C13: for a reasoning-capable id whose effort is not disabled, a configured
\* summary of null gives a reasoning parameter with the effort and without a
\* summary.
C13_NullSummaryOmitted ==
  ( /\ reasoningPc = "args"
    /\ modelId \in DocumentedReasoningIds
    /\ config.reasoningEffort # "null"
    /\ config.reasoningSummary = "null" )
  => /\ ~reasoning.null
     /\ reasoning.effort = Coalesce(config.reasoningEffort, "medium")
     /\ reasoning.summary = "undefined"

\* the ids whose lower-case form starts with none of the given prefixes
OutsideFamilies(prefixes) ==
  {id \in ModelIds : \A prefix \in prefixes : ~StartsWith(ToLowerCase(id), prefix)}

ExpectedCodexBlob ==
  IF FileCodex \in instructionFiles THEN FileText(FileCodex)
  ELSE IF FileBase \in instructionFiles THEN FileText(FileBase)
  ELSE <<"You are a helpful assistant.">>

ExpectedBaseBlob ==
  IF FileBase \in instructionFiles THEN FileText(FileBase)
  ELSE <<"You are a helpful assistant.">>

ExpectedApplyPatchBlob ==
  IF FileApplyPatch \in instructionFiles THEN FileText(FileApplyPatch) ELSE <<>>

CodexInstructionIds == {IdGpt5Codex, IdCodexMini, IdCodexUpper}

\* C15 as stated: codex ids get the codex blob, every other
\* reasoning-family id gets the base blob joined by a newline with the
\* apply-patch blob, every remaining id gets the base blob alone.
C15_InstructionsByReasoningFamily ==
  reasoningPc = "args" =>
    instructions =
      IF modelId \in CodexInstructionIds THEN ExpectedCodexBlob
      ELSE IF supportsReasoning(modelId)
      THEN ExpectedBaseBlob \o <<"\n">> \o ExpectedApplyPatchBlob
      ELSE ExpectedBaseBlob

\* C15 amended: codex ids get the codex blob; the other ids that start with
\* gpt-5 (in any case) get the base blob joined by a newline with the
\* apply-patch blob when that blob is not empty; every remaining id, o3
\* included, and the gpt-5 ids when the apply-patch blob is empty, get the
\* base blob alone.
C15_InstructionsByPrefix ==
  reasoningPc = "args" =>
    instructions =
      IF modelId \in CodexInstructionIds THEN ExpectedCodexBlob
      ELSE IF modelId \in {IdGpt5, IdGpt5Upper} /\ ExpectedApplyPatchBlob # <<>>
      THEN ExpectedBaseBlob \o <<"\n">> \o ExpectedApplyPatchBlob
      ELSE ExpectedBaseBlob

C15_Witness ==
  /\ reasoningPc = "args"
  /\ modelId = IdGpt5Upper
  /\ instructionFiles = InstructionFileNames
  /\ instructions = <<"contents of", FileBase, "\n", "contents of", FileApplyPatch>>

(***************************************************************************)
(* Further properties of the Tool Identity Mapper (SpecTools).             *)
(***************************************************************************)
\* the declared function tools no keyword rule matches, in order
UnmatchedTools ==
  SelectSeq(callerTools,
            LAMBDA t : t.type = "function" /\ FamilyOf(t) = <<>>)

UnsupportedToolWarnings ==
  SelectSeq(prepared.warnings, LAMBDA w : w.type = "unsupported-tool")

\* C16: after prepareChatGPTTools, a declared function tool no keyword rule
\* matches is in neither the tool list nor the identity map, and the
\* unsupported-tool warnings are exactly one per such declaration, each
\* naming its tool, in declaration order.
C16_UnsupportedToolWarned ==
  toolsPc = "prepared" =>
    /\ \A i \in 1..Len(UnmatchedTools) :
         /\ \A j \in 1..Len(prepared.tools) :
              prepared.tools[j].name # UnmatchedTools[i].name
         /\ \A k \in DOMAIN prepared.toolMapping :
              prepared.toolMapping[k] # UnmatchedTools[i].name
    /\ Len(UnsupportedToolWarnings) = Len(UnmatchedTools)
    /\ \A i \in 1..Len(UnmatchedTools) :
         UnsupportedToolWarnings[i].tool = UnmatchedTools[i].name

C16_Witness ==
  /\ toolsPc = "prepared"
  /\ callerTools = <<[type |-> "function", name |-> NameBash],
                     [type |-> "function", name |-> NameGetWeather]>>
  /\ prepared.tools = <<CODEX_SHELL_TOOL>>
  /\ DOMAIN prepared.toolMapping = {NameShell}
  /\ prepared.warnings = <<[type |-> "unsupported-tool", tool |-> NameGetWeather]>>

UnsupportedSettingWarnings ==
  SelectSeq(prepared.warnings, LAMBDA w : w.type = "unsupported-setting")

\* C17: after prepareChatGPTTools, a choice left unset with at least one
\* tool mapped is auto; a specific-tool choice is auto with exactly one
\* unsupported-setting warning; none, required and auto are unchanged and
\* give no such warning.
C17_ToolChoiceResolved ==
  toolsPc = "prepared" =>
    /\ (callerToolChoice = "undefined" /\ Len(prepared.tools) > 0) =>
         prepared.toolChoice = "auto"
    /\ callerToolChoice = "tool" =>
         /\ prepared.toolChoice = "auto"
         /\ Len(UnsupportedSettingWarnings) = 1
    /\ callerToolChoice \in {"none", "required", "auto"} =>
         prepared.toolChoice = callerToolChoice
    /\ callerToolChoice # "tool" => Len(UnsupportedSettingWarnings) = 0

C17_Witness ==
  /\ toolsPc = "prepared"
  /\ callerToolChoice = "undefined"
  /\ callerTools = <<[type |-> "function", name |-> NameTodoWrite]>>
  /\ prepared.tools = <<CODEX_UPDATE_PLAN_TOOL>>
  /\ prepared.toolChoice = "auto"

(***************************************************************************)
(* Properties of the Message Translator (specification SpecMessages).      *)
(***************************************************************************)
EffectiveSystemMode ==
  IF systemMessageMode = "undefined" THEN "user" ELSE systemMessageMode

\* how many backend messages a prompt message stands for when system
\* messages are kept
ProducedBy(message) ==
  CASE message.role \in {"system", "user", "assistant"} -> 1
    [] message.role = "tool" -> Len(message.responses)
    [] OTHER -> 0

RECURSIVE ProducedBefore(_)
\* the backend messages the prompt messages before the i-th stand for
ProducedBefore(i) ==
  IF i <= 1 THEN 0 ELSE ProducedBefore(i - 1) + ProducedBy(prompt[i - 1])

SystemPositions == {i \in 1..Len(prompt) : prompt[i].role = "system"}

ConversionWarnings ==
  SelectSeq(messageWarnings,
            LAMBDA w : w.message[1] \in
              {"System messages are converted to user messages",
               "System messages are converted to user messages with name=\"system\""})

\* C18: with systemMessageMode user, each system message of the prompt is
\* one backend message with role user, its content and the system marker,
\* at its original position, and the conversion warnings are one for each
\* system message.
C18_SystemMessageAsMarkedUser ==
  (translatorPc = "converted" /\ EffectiveSystemMode = "user") =>
    /\ Len(chatgptMessages) = ProducedBefore(Len(prompt) + 1)
    /\ \A i \in SystemPositions :
         /\ chatgptMessages[ProducedBefore(i) + 1].role = "user"
         /\ chatgptMessages[ProducedBefore(i) + 1].content = <<prompt[i].text>>
         /\ chatgptMessages[ProducedBefore(i) + 1].name = "system"
    /\ Len(ConversionWarnings) = Cardinality(SystemPositions)

WithoutSystemMessages == SelectSeq(prompt, LAMBDA m : m.role # "system")

\* C19: with systemMessageMode system, the backend messages are exactly
\* those of the prompt without its system messages, in order.
C19_SystemMessagesDropped ==
  (translatorPc = "converted" /\ systemMessageMode = "system") =>
    chatgptMessages =
      convertToChatGPTMessages(translatorVariant, WithoutSystemMessages,
                               systemMessageMode).messages

KnownRoles == {"system", "user", "assistant", "tool"}

\* the part types the user case of each variant handles
RecognizedPartTypes ==
  IF translatorVariant = "v1" THEN {"text", "image"} ELSE {"text", "file"}

UnknownRoleMessages == SelectSeq(prompt, LAMBDA m : m.role \notin KnownRoles)

UnknownPartsOf(message) ==
  IF message.role = "user" /\ ~message.isString
  THEN SelectSeq(message.parts, LAMBDA part : part.type \notin RecognizedPartTypes)
  ELSE <<>>

UnknownParts == Concat([i \in 1..Len(prompt) |-> UnknownPartsOf(prompt[i])])

\* the prompt without the messages of an unknown role and without the user
\* parts of an unknown type
CleanedPrompt ==
  LET kept == SelectSeq(prompt, LAMBDA m : m.role \in KnownRoles) IN
    [i \in 1..Len(kept) |->
       IF kept[i].role = "user"
       THEN [kept[i] EXCEPT !.parts =
               SelectSeq(@, LAMBDA part : part.type \in RecognizedPartTypes)]
       ELSE kept[i]]

RoleWarnings ==
  SelectSeq(messageWarnings, LAMBDA w : w.message[1] = "Unsupported message role: ")

PartWarnings ==
  SelectSeq(messageWarnings, LAMBDA w : w.message[1] = "Unsupported content part type: ")

HasToolResponseWithoutOutput ==
  \E i \in 1..Len(prompt) :
    /\ prompt[i].role = "tool"
    /\ \E j \in 1..Len(prompt[i].responses) :
         prompt[i].responses[j].output.kind = "undefined"

\* C20: no message of an unknown role and no user part of an unknown type
\* makes the call throw; the backend messages are those of the prompt
\* without them; each adds exactly one warning, naming the role or the
\* type, and no other warning is added or lost.
C20_AnomaliesWarnedNotThrown ==
  /\ translatorPc = "threw" =>
       (translatorVariant = "v2" /\ HasToolResponseWithoutOutput)
  /\ translatorPc = "converted" =>
       LET cleaned == convertToChatGPTMessages(translatorVariant, CleanedPrompt,
                                               systemMessageMode)
       IN /\ chatgptMessages = cleaned.messages
          /\ Len(messageWarnings) =
               Len(cleaned.warnings) + Len(UnknownRoleMessages) + Len(UnknownParts)
          /\ RoleWarnings =
               [i \in 1..Len(UnknownRoleMessages) |->
                  OtherWarning(<<"Unsupported message role: ",
                                 UnknownRoleMessages[i].role>>)]
          /\ PartWarnings =
               [i \in 1..Len(UnknownParts) |->
                  OtherWarning(<<"Unsupported content part type: ",
                                 UnknownParts[i].type>>)]

C20_Witness ==
  /\ translatorPc = "converted"
  /\ translatorVariant = "v1"
  /\ prompt = <<MsgDeveloper, MsgUserMixed, MsgUserHi>>
  /\ Len(chatgptMessages) = 2
  /\ chatgptMessages[1].content =
       <<"look", "\n", "[Image: ", "https://x/cat.png", "]">>
  /\ chatgptMessages[2].content = <<"hi">>
  /\ Len(messageWarnings) = 2

(***************************************************************************)
(* Usage (specification Spec).                                             *)
(***************************************************************************)
Range(q) == {q[i] : i \in 1..Len(q)}

\* the usage of a finish part, as the record the caller receives
PartUsage(part) ==
  [promptTokens |-> part.promptTokens, completionTokens |-> part.completionTokens]

\* a usage record carries a total, and it is the sum of its two counts
HasAdditiveTotal(u) ==
  /\ "totalTokens" \in DOMAIN u
  /\ u.totalTokens = u.promptTokens + u.completionTokens

\* C21: for any completed event, the usage reported to the caller (in the
\* finish part of doStream, in the result of doGenerate) has a total that
\* equals its input count plus its output count.
C21_TotalIsInputPlusOutput ==
  /\ path = "stream" => \A i \in FinishPositions : HasAdditiveTotal(PartUsage(emitted[i]))
  /\ (path = "generate" /\ pc = "ended" /\ LineCompleted \in Range(BodyLines)) =>
       HasAdditiveTotal(result.usage)

(***************************************************************************)
(* The finish-reason table (specification SpecFinish).                     *)
(***************************************************************************)
FinishReasons == {"stop", "length", "tool-calls", "content-filter", "error", "other", "unknown"}

\* the table of the documentation, with the given value for every other input
FinishReasonTable(status, default) ==
  CASE status \in {"stop", "completed"} -> "stop"
    [] status \in {"length", "max_tokens"} -> "length"
    [] status \in {"tool_calls", "function_call"} -> "tool-calls"
    [] status = "content_filter" -> "content-filter"
    [] OTHER -> default

\* C22: mapChatGPTFinishReason maps stop and completed to stop, length and
\* max_tokens to length, tool_calls and function_call to tool-calls,
\* content_filter to content-filter, and every other input (null and
\* undefined included) to one fixed default value.
C22_FinishReasonTable ==
  \E default \in FinishReasons :
    \A i \in 1..Len(lookups) :
      lookups[i].mapped = FinishReasonTable(lookups[i].status, default)

(***************************************************************************)
(* Order of the emitted parts (specification Spec).                        *)
(***************************************************************************)
\* the parts of the events read so far, each at the place of its event:
\* what the read loop emits for these bytes when no text is held back
Arrived(now) ==
  OnChunk(InitialReduction, "stream", SubSeq(body, 1, pos), toolMapping,
          "regular", now).emitted

PositionsOf(parts, type) == {i \in 1..Len(parts) : parts[i].type = type}

\* the position of the k-th part of the given type
Nth(parts, type, k) ==
  CHOOSE i \in PositionsOf(parts, type) :
    Cardinality({j \in PositionsOf(parts, type) : j <= i}) = k

TextBeforeToolCall(parts, k) ==
  \E i \in PositionsOf(parts, "text-delta") : i < Nth(parts, "tool-call", k)

\* the order conjunct of C23: the k-th tool call has text before it among
\* the emitted parts exactly when it has among the events that arrived
ToolCallsAndTextInArrivalOrder ==
  path = "stream" =>
    \A now \in FallbackIds :
      /\ Cardinality(PositionsOf(emitted, "tool-call")) =
           Cardinality(PositionsOf(Arrived(now), "tool-call"))
      /\ \A k \in 1..Cardinality(PositionsOf(emitted, "tool-call")) :
           TextBeforeToolCall(emitted, k) <=> TextBeforeToolCall(Arrived(now), k)

\* C23: in doStream, in every mode, the parts are emitted in the order in
\* which the backend events that produced them arrived (text that arrived
\* before a tool call was closed is emitted before that tool call, and the
\* other way round), and a finish part is the last part.
C23_EmittedInArrivalOrder ==
  /\ ToolCallsAndTextInArrivalOrder
  /\ path = "stream" => \A i \in FinishPositions : i = Len(emitted)

(***************************************************************************)
(* The object-json overlay (specification Spec).                           *)
(***************************************************************************)
\* the text from the first { to the last }
Braced(t) == SubSeq(t, IndexOf(t, "{"), LastIndexOf(t, "}"))

\* the text narrowed to its braces when both are there and what is between
\* them parses as JSON, and the text itself otherwise
NarrowedToJSON(t) ==
  IF "{" \in Range(t) /\ "}" \in Range(t) /\ IsJSON(Braced(t)) THEN Braced(t) ELSE t

\* C30: in object-json mode the text doGenerate returns, and every text
\* part doStream emits, is the accumulated text narrowed to the substring
\* from its first { to its last } when both are found and the substring
\* parses as JSON, and the accumulated text unchanged in every other case.
C30_NarrowedOnlyToParsableJSON ==
  mode = "object-json" =>
    /\ (path = "generate" /\ pc = "ended") => result.text = NarrowedToJSON(text)
    /\ path = "stream" =>
         \A i \in PositionsOf(emitted, "text-delta") :
           \E n \in 1..Len(accumulatedText) :
             emitted[i].textDelta = NarrowedToJSON(SubSeq(accumulatedText, 1, n))

(***************************************************************************)
(* Backpressure (specification SpecStream).                                *)
(***************************************************************************)
\* the parts enqueued that the caller has not read yet
Waiting == Len(sourceState.emitted) - taken

\* C24: the stream is pull-based: the start callback performs its next
\* read of the response body only when the caller has read every part
\* emitted before.
C24_ReadsOnlyWhenConsumed ==
  [][netReads' > netReads => Waiting = 0]_vars

(***************************************************************************)
(* The request of a call (specification SpecRequest).                      *)
(***************************************************************************)
RequestCount == Len(requests)

C26_CustomFetchUsed ==
  configFetch = "custom" =>
    \A i \in 1..RequestCount : requests[i].via = "custom"

\* C29 as stated: getCredentials is invoked exactly once per call, and
\* before the request is assembled.
C29_CredentialsBeforeAssembly ==
  /\ credentialCalls <= 1
  /\ requestArgs = "args" => credentialsAtArgs = 1

\* C29: getCredentials is never invoked twice in a call; it is invoked
\* after getArgs has assembled the request arguments, and exactly once
\* before the HTTP request is issued.
C29_CredentialsOnceBeforeFetch ==
  /\ credentialCalls <= 1
  /\ requestArgs = "args" => credentialsAtArgs = 0
  /\ credentialCalls = 1 => requestArgs = "args"
  /\ requestPc \in {"headers", "awaiting", "reading", "rejected"} => credentialCalls = 1
  /\ RequestCount > 0 =>
       /\ credentialCalls = 1
       /\ \E credentials \in ResolvedCredentials :
            requests[1].headers["Authorization"] = <<"Bearer ", credentials.accessToken>>

C29_Witness ==
  /\ requestPc = "awaiting"
  /\ RequestCount = 1
  /\ credentialCalls = 1
  /\ credentialsAtArgs = 0

(***************************************************************************)
(* The credential source (specification SpecAuth).                         *)
(***************************************************************************)
\* the three conditions of the documentation, for the credentials held
RefreshDue(held) ==
  /\ held.refreshToken # ""
  /\ settings.autoRefresh # "false"
  /\ held.expiresAt # 0
  /\ held.expiresAt - clock < RefreshWindow

\* the invocations on the DefaultAuthProvider that have got credentials to
\* look at (given at construction, held from before, or loaded)
Examined ==
  {i \in 1..MaxInvocations :
     /\ settings.authProvider = "undefined"
     /\ invocations[i].pc \in {"refreshing", "returned", "threw"}
     /\ invocations[i].loaded.ok}

\* C27: getCredentials of DefaultAuthProvider refreshes only when a refresh
\* token is available, autoRefresh is not false and the access token
\* expires in less than 60 seconds; when one of the three does not hold it
\* returns the credentials it holds.
C27_RefreshOnlyWhenDue ==
  /\ \A i \in Examined :
       IF RefreshDue(invocations[i].seen)
       THEN invocations[i].awaits # 0
       ELSE /\ invocations[i].pc = "returned"
            /\ invocations[i].awaits = 0
            /\ invocations[i].result = invocations[i].seen
  /\ \A r \in 1..Len(refreshRequests) : refreshRequests[r].refresh_token # ""

\* the account of the source the documentation puts first among those given
FirstSourceAccount ==
  IF settings.credentials # NoCredentials THEN "direct-account"
  ELSE IF settings.authProvider = "custom" THEN "provider-account"
  ELSE IF processEnv # NoEnv THEN "env-account"
  ELSE IF settings.credentialsPath # "" THEN "custom-file-account"
  ELSE "file-account"

\* C28: the credentials getCredentials gives come from the first source
\* that is present, in the order: credentials given directly, custom auth
\* provider, environment variables, credentials file.
C28_SourcePriority ==
  \A i \in 1..Len(invocations) :
    invocations[i].pc = "returned" => invocations[i].result.accountId = FirstSourceAccount

(***************************************************************************)
(* Function calls closed without having been opened (specification Spec).  *)
(***************************************************************************)
\* the named function-call item-done lines of the model
DoneLines == {LineDoneShell, LineDoneShellBad, LineDoneShellExtra, LineDonePlan}

\* the body closes a function call that no item-added frame opened
ClosesUnopenedCall ==
  /\ \E i \in 1..Len(BodyLines) : BodyLines[i] \in DoneLines
  /\ \A i \in 1..Len(BodyLines) : BodyLines[i] # LineAdded

\* C31: when doGenerate has returned for a body with a named function-call
\* item-done whose id no item-added opened, the result holds a tool call
\* with that id, the event's name (as the caller named it) and arguments.
C31_UnopenedDoneYieldsToolCall ==
  (path = "generate" /\ pc = "ended" /\ ClosesUnopenedCall) =>
    \E k \in 1..Len(result.toolCalls) :
       /\ result.toolCalls[k].toolCallId = "fc_1"
       /\ result.toolCalls[k].toolName = OriginalName(toolMapping, NameShell)

(***************************************************************************)
(* The identity map of one request (specification SpecTools).              *)
(***************************************************************************)
FirstMemberOf(canonical) ==
  CHOOSE i \in MembersOf(canonical) : \A j \in MembersOf(canonical) : i <= j

\* C32: the map prepareChatGPTTools returns has one caller tool name for
\* each canonical name some caller tool matches and none for the others,
\* and the recorded name is that of the first matching caller tool.
C32_FirstMatchRecorded ==
  toolsPc = "prepared" =>
    \A canonical \in {NameShell, NameUpdatePlan} :
      IF MembersOf(canonical) # {}
      THEN /\ canonical \in DOMAIN prepared.toolMapping
           /\ prepared.toolMapping[canonical] =
                callerTools[FirstMemberOf(canonical)].name
      ELSE canonical \notin DOMAIN prepared.toolMapping

(***************************************************************************)
(* Opened and closed function calls (specification Spec).                  *)
(***************************************************************************)
RECURSIVE Calls(_, _)
\* what the frames of a body ask for: acc.closed counts the named item-done
\* frames that close a call an earlier item-added opened and that was not
\* closed since; acc.withId and acc.withoutId are the calls still open
Calls(lines, acc) ==
  IF lines = <<>> THEN acc
  ELSE
    LET l == Head(lines) IN
    Calls(Tail(lines),
      CASE l = LineAdded -> [acc EXCEPT !.withId = 1]
        [] l = LineAddedNoId -> [acc EXCEPT !.withoutId = 1]
        [] l \in DoneLines ->
             [acc EXCEPT !.closed = @ + acc.withId, !.withId = 0]
        [] l = LineDoneNoId ->
             [acc EXCEPT !.closed = @ + acc.withoutId, !.withoutId = 0]
        [] OTHER -> acc)

CallsOfBody == Calls(BodyLines, [closed |-> 0, withId |-> 0, withoutId |-> 0])

\* the tool calls handed to the caller
ReportedToolCalls ==
  IF path = "generate" THEN Len(result.toolCalls)
  ELSE Cardinality(PositionsOf(emitted, "tool-call"))

\* C33: once the body has been read to its end, every function call that
\* was opened by an item-added and later closed by a named item-done, with
\* or without an item id, has been handed to the caller exactly once, and
\* the table holds entries only for calls that are still open.
C33_OpenedAndClosedEmittedOnce ==
  (pc = "ended" /\ pos = Len(body)) =>
    /\ ReportedToolCalls = CallsOfBody.closed
    /\ Cardinality(DOMAIN activeToolCalls) = CallsOfBody.withId + CallsOfBody.withoutId

(***************************************************************************)
(* The sentinel in doGenerate (specification Spec).                        *)
(***************************************************************************)
SentinelPositions == {i \in 1..Len(BodyLines) : BodyLines[i] = LineSentinel}

\* the lines of the body that come before its first sentinel
BeforeSentinel ==
  SubSeq(BodyLines, 1,
         (CHOOSE i \in SentinelPositions : \A j \in SentinelPositions : i <= j) - 1)

\* what doGenerate returns when the body ends where its first sentinel is
ResultUpToSentinel(now) ==
  GenerateResult(
    IF BeforeSentinel = <<>> THEN InitialReduction
    ELSE OnChunk(InitialReduction, "generate", BodyOf(BeforeSentinel),
                 toolMapping, mode, now),
    mode)

\* C34: when doGenerate has returned for a body with a sentinel line, the
\* text, tool calls, finish reason and usage of the result are those of
\* the frames before the sentinel, whatever came after it and however the
\* body was cut into chunks.
C34_NothingAfterSentinelCounts ==
  (path = "generate" /\ pc = "ended" /\ SentinelPositions # {}) =>
    \A now \in FallbackIds :
      /\ result.text = ResultUpToSentinel(now).text
      /\ result.toolCalls = ResultUpToSentinel(now).toolCalls
      /\ result.finishReason = ResultUpToSentinel(now).finishReason
      /\ result.usage = ResultUpToSentinel(now).usage

(***************************************************************************)
(* Overlapping getCredentials calls (specification SpecAuth).              *)
(***************************************************************************)
\* the refresh requests that have been sent and not yet answered
InFlight == {p \in 1..Len(promises) : promises[p].state = "pending"}

\* the invocations that found the token in need of a refresh
Refreshers == {i \in 1..MaxInvocations : invocations[i].awaits # 0}

\* C35: at most one refresh request is in flight at any time, the
\* getCredentials calls that find the token in need of a refresh all wait
\* for the same refresh, and those that have returned have all returned
\* the credentials that refresh gave.
C35_OneRefreshShared ==
  /\ Cardinality(InFlight) <= 1
  /\ \A i \in Refreshers, j \in Refreshers :
       /\ invocations[i].awaits = invocations[j].awaits
       /\ invocations[i].pc = "returned" =>
            /\ promises[invocations[i].awaits].state = "fulfilled"
            /\ invocations[i].result = promises[invocations[i].awaits].value
            /\ invocations[j].pc = "returned" =>
                 invocations[j].result = invocations[i].result

\* two calls waited for one refresh and both returned what it gave
C35_Witness ==
  /\ Len(promises) = 1
  /\ Len(refreshRequests) = 1
  /\ \A i \in 1..2 :
       /\ invocations[i].pc = "returned"
       /\ invocations[i].awaits = 1
       /\ invocations[i].result.accessToken = "refreshed-access-token"

(***************************************************************************)
(* A refresh that failed (specification SpecAuth).                         *)
(***************************************************************************)
\* an invocation has rejected because the token endpoint did not answer
\* with new tokens
SomeRefreshFailed ==
  \E i \in 1..MaxInvocations :
    /\ invocations[i].pc = "threw"
    /\ invocations[i].error = <<"Failed to refresh ChatGPT OAuth token">>

\* C36: a getCredentials call that is made after another one rejected with
\* a failed refresh, and that finds the token still in need of a refresh,
\* sends a new request to the token endpoint and waits for its answer.
C36_FailedRefreshNotRemembered ==
  [][\A j \in 1..MaxInvocations :
       (/\ SomeRefreshFailed
        /\ invocations[j].pc = "idle"
        /\ invocations'[j].pc = "refreshing")
       => /\ Len(refreshRequests') = Len(refreshRequests) + 1
          /\ invocations'[j].awaits = Len(promises')
          /\ promises'[invocations'[j].awaits].state = "pending"]_vars

(***************************************************************************)
(* getArgs: the input, the tools and the tool_choice of the request.       *)
(***************************************************************************)
\* the message getArgs puts in front of the input in object-json mode
JSONOnlyMessage ==
  BackendMessage("user",
    <<"CRITICAL: Output MUST be valid JSON only.", NL,
      "- Do not include markdown, code fences, or commentary.", NL,
      "- Do not include fields not requested by the schema.", NL,
      "- The first character must be { or [ and the last must be } or ].">>)

\* a tool message without tool responses
MsgToolEmpty == [BlankMessage EXCEPT !.role = "tool"]

ArgsToolDecls ==
  {[type |-> "function", name |-> n] : n \in {NameBash, NameMyPlan, NameGetWeather}}

ArgsMessages == {MsgUserHi, MsgAssistant, MsgToolResult, MsgToolEmpty}

\* ToolChoiceOf as prepareChatGPTTools resolves a choice left unset
ToolChoiceOfPrepared(tools, hasToolMessages) ==
  IF Len(tools) > 0 THEN "auto" ELSE "none"

\* tools && tools.length > 0 ? (hasToolMessages ? 'auto' : 'required') : 'none'
ToolChoiceOf(tools, hasToolMessages) ==
  IF Len(tools) > 0
  THEN (IF hasToolMessages THEN "auto" ELSE "required")
  ELSE "none"

\* the part of getArgs that builds input, tools and tool_choice
AssembledRequest(options) ==
  LET chatgptInput == convertToChatGPTMessages("v1", options.prompt, "user").messages
      tools == prepareChatGPTTools(
                 IF options.mode = "regular" THEN options.tools ELSE <<>>,
                 "undefined").tools
      hasToolMessages ==
        \E k \in 1..Len(chatgptInput) : chatgptInput[k].role = "tool"
  IN [input |-> IF options.mode = "object-json"
                THEN <<JSONOnlyMessage>> \o chatgptInput
                ELSE chatgptInput,
      tools |-> tools,
      tool_choice |-> ToolChoiceOf(tools, hasToolMessages)]

\* options.mode is regular (with or without tools) or object-json (where
\* the caller has no tools to give)
ArgsInit ==
  /\ callOptions \in
       [mode : {"regular"},
        tools : SeqsUpTo(ArgsToolDecls, MaxTools),
        prompt : SeqsUpTo(ArgsMessages, MaxMessages)]
       \cup
       [mode : {"object-json"},
        tools : {<<>>},
        prompt : SeqsUpTo(ArgsMessages, MaxMessages)]
  /\ assembledArgs = NoArgs
  /\ getArgsPc = "called"

AssembleArgs ==
  /\ getArgsPc = "called"
  /\ assembledArgs' = AssembledRequest(callOptions)
  /\ getArgsPc' = "assembled"
  /\ UNCHANGED callOptions
  /\ UNCHANGED <<callVars, toolVars, reasoningVars, messageVars, finishVars, streamVars, requestVars, authVars>>

ArgsNext == AssembleArgs

InitArgs == ArgsInit /\ CallIdle /\ ToolsIdle /\ ReasoningIdle /\ MessagesIdle /\ FinishIdle /\ StreamIdle /\ RequestIdle /\ AuthIdle

SpecArgs == InitArgs /\ [][ArgsNext]_vars

\* a caller tool was mapped: a function tool of a regular-mode call whose
\* name is of the execution or of the planning family
SomeToolMapped ==
  /\ callOptions.mode = "regular"
  /\ \E k \in 1..Len(callOptions.tools) :
       /\ callOptions.tools[k].type = "function"
       /\ IsShellLike(callOptions.tools[k].name) \/ IsPlanLike(callOptions.tools[k].name)

InputHasToolMessage ==
  \E k \in 1..Len(assembledArgs.input) : assembledArgs.input[k].role = "tool"

\* C37: the tool_choice of an assembled request is none exactly when no
\* caller tool was mapped; when a tool was mapped it is required for an
\* input without a tool-role message and auto for an input with one.
C37_ToolChoiceOfRequest ==
  getArgsPc = "assembled" =>
    /\ assembledArgs.tool_choice \in {"none", "auto", "required"}
    /\ assembledArgs.tool_choice = "none" <=> ~SomeToolMapped
    /\ (SomeToolMapped /\ ~InputHasToolMessage) => assembledArgs.tool_choice = "required"
    /\ (SomeToolMapped /\ InputHasToolMessage) => assembledArgs.tool_choice = "auto"

\* a mapped tool next to a tool result: auto, although the prompt also has
\* a tool message that translates to nothing
C37_Witness ==
  /\ getArgsPc = "assembled"
  /\ SomeToolMapped /\ InputHasToolMessage
  /\ \E k \in 1..Len(callOptions.prompt) : callOptions.prompt[k] = MsgToolEmpty
  /\ assembledArgs.tool_choice = "auto"

(***************************************************************************)
(* The finish reason of a call with tool calls (specification Spec).       *)
(***************************************************************************)
\* C38: when doGenerate has returned a result with at least one tool call
\* its finish reason is tool-calls, and every finish part doStream emits
\* after a tool-call part carries the finish reason tool-calls.
C38_ToolCallsFinishReason ==
  /\ (path = "generate" /\ pc = "ended" /\ Len(result.toolCalls) >= 1) =>
       result.finishReason = "tool-calls"
  /\ path = "stream" =>
       \A i \in FinishPositions :
         (\E k \in PositionsOf(emitted, "tool-call") : k < i) =>
           emitted[i].finishReason = "tool-calls"

(***************************************************************************)
(* The text of a closed stream (specification Spec).                       *)
(***************************************************************************)
\* the delta of an output-text frame, and nothing for any other line
DeltaOf(line) ==
  CASE line = LineText -> <<"h">>
    [] line = LineTextEAcute -> <<EAcute>>
    [] line = LineTextJSON -> TxtProseThenJSON
    [] OTHER -> <<>>

\* the non-empty output-text deltas received before the first sentinel
ReceivedDeltas ==
  SelectSeq([i \in 1..Len(BeforeSentinel) |-> DeltaOf(BeforeSentinel[i])],
            LAMBDA d : d # <<>>)

\* the texts of the text-delta parts emitted, in their order
EmittedTexts ==
  LET parts == SelectSeq(emitted, LAMBDA part : part.type = "text-delta")
  IN [i \in 1..Len(parts) |-> parts[i].textDelta]

\* C39: when the caller-facing stream of doStream has been closed, every
\* non-empty output-text delta received before that has been emitted: in
\* regular mode each as a text-delta of its own, in object-json mode in a
\* last text-delta that holds the accumulated text (whole, or from its
\* first { to its last }).
C39_NoTextLostAtClose ==
  (path = "stream" /\ streamState = "closed") =>
    IF mode = "regular"
    THEN EmittedTexts = ReceivedDeltas
    ELSE ReceivedDeltas # <<>> =>
           /\ EmittedTexts # <<>>
           /\ EmittedTexts[Len(EmittedTexts)] \in
                {Concat(ReceivedDeltas), Braced(Concat(ReceivedDeltas))}

====
